---- MODULE Spec2Model ----
(***************************************************************************)
(* Model of the Lawsparkai1 admin backend (src/backend/app).               *)
(*                                                                         *)
(* Part 1: the fine-tuning job simulator (services/fine_tuning_service.py) *)
(* and the endpoints that create and cancel jobs                           *)
(* (api/v1/endpoints/fine_tuning.py).                                      *)
(* Part 2: the data-processing background tasks                            *)
(* (services/data_preparation_service.py).                                 *)
(*                                                                         *)
(* The record store (core/database.py) is an external service shared by    *)
(* every worker that serves the API.  The code holds no lock and opens no  *)
(* transaction, so every awaited store call (select / insert / update) is  *)
(* one atomic step of the model and the steps of different requests and    *)
(* background tasks interleave freely.  A store call that raises writes    *)
(* nothing (core/database.py wraps every error into one Exception); the   *)
(* store raises on every call made during an outage and on no other call. *)
(*                                                                         *)
(* Time stamps are abstracted: a stamped end_time is TRUE, the time stamp  *)
(* inside a log line is dropped.  Log text is a sequence of lines.         *)
(***************************************************************************)
EXTENDS Integers, Sequences, FiniteSets, TLC

\* ------------------------------------------------------------------ bounds
\* number of cancel requests issued in a behaviour
MaxCancels == 1
\* number of outages of the record store in a behaviour
MaxOutages == 1

\* ------------------------------------------------------- job identifiers
\* uuid4 strings, here ten characters long (longer than the 8 of model_id)
J1 == <<1, 0, 0, 0, 0, 0, 0, 7, 5, 5>>
J2 == <<2, 0, 0, 0, 0, 0, 0, 7, 6, 6>>
\* an id no insert ever returned
JUnknown == <<9, 9, 9, 9, 9, 9, 9, 9, 9, 9>>
JobIds == {J1, J2}
\* ids the create endpoint may draw when cancels and store failures are modelled
RaceJobs == {J1}
\* values of hash(job_id), which Python salts per process
HashValues == {19, 45}

\* ----------------------------------------------------------- JobStatus
JobStatus == {"preparing", "training", "evaluating", "completed", "failed"}
Terminal == {"completed", "failed"}

\* FineTuningService.__init__
training_stages ==
    << "Preparing training data...",
       "Initializing model...",
       "Training epoch 1/3...",
       "Training epoch 2/3...",
       "Training epoch 3/3...",
       "Evaluating model performance...",
       "Running validation tests...",
       "Finalizing model..." >>

\* the three canned queries of _run_validation_tests, by category
test_queries == << "clause_explanation", "simplification", "qa" >>

CompletedLine == "Training completed successfully"
CancelLine == "Job cancelled by admin"

\* str(e) of the Exception the store client raises for each primitive
ErrText(op) ==
    CASE op = "select" -> "Select failed"
      [] op = "insert" -> "Insert failed"
      [] op = "update" -> "Update failed"

\* f"Training failed: {str(e)}"
FailedLine(e) ==
    CASE e = "Select failed" -> "Training failed: Select failed"
      [] e = "Insert failed" -> "Training failed: Insert failed"
      [] e = "Update failed" -> "Training failed: Update failed"
      [] e = "Job not found" -> "Training failed: Job not found"

NoModel == << >>

\* job_id[:8]
Prefix8(id) == SubSeq(id, 1, IF Len(id) < 8 THEN Len(id) ELSE 8)

\* f"legal-model-{job_id[:8]}"
ModelId(id) == <<"legal-model-">> \o Prefix8(id)

\* stage i already counted as done: (i + 1) / 8 * 80
StageProgressOffByOne(i) == ((i + 1) * 80) \div Len(training_stages)

\* progress = (i / len(self.training_stages)) * 80
StageProgress(i) == (i * 80) \div Len(training_stages)

\* FineTuningJob(...) as create_fine_tuning_job builds it
NewJob ==
    [ status   |-> "preparing",
      progress |-> 0,
      end_time |-> FALSE,
      model_id |-> NoModel,
      logs     |-> << >> ]

VARIABLES
    ftJobs,       \* table fine_tuning_jobs: id -> row
    ftMetrics,    \* table training_metrics, in insertion order
    ftValidation, \* table validation_results, in insertion order
    reqPc,        \* create_fine_tuning_job / start_training position, per job id
    reqErr,       \* the exception start_training caught
    simPc,        \* _run_training_process position, per job id
    simI,         \* its loop index i
    simT,         \* index of the validation test being run
    simLogs,      \* its local current_logs
    simErr,       \* the exception its handler caught
    cancel,       \* cancel_fine_tuning_job requests
    storeUp,      \* FALSE while the record store fails every call
    outages,      \* number of store outages so far
    docs,         \* table legal_documents: id -> row
    dpJobs,       \* table data_processing_jobs: id -> row
    pairs,        \* table prompt_response_pairs: id -> row
    deleted,      \* ids of legal_documents rows removed from the store
    task,         \* the background task of each data-processing job
    pending,      \* requests between their first and their second store call
    fnArg,        \* the arguments of a call of a function without side effects
    fnRes,        \* what the call returned
    dataset_metrics, \* table dataset_metrics, in insertion order
    clock,        \* datetime.utcnow(), counted in readings
    mreq,         \* get_dataset_metrics / refresh_dataset_metrics requests
    deployments,  \* table model_deployments, in insertion order
    deploy        \* deploy_model requests

ftVars == << ftJobs, ftMetrics, ftValidation, reqPc, reqErr, simPc, simI, simT,
             simLogs, simErr, cancel, storeUp, outages >>

dpVars == << docs, dpJobs, pairs, deleted, task, pending >>

fnVars == << fnArg, fnRes >>

adVars == << dataset_metrics, clock, mreq, deployments, deploy >>

vars == << ftVars, dpVars, fnVars, adVars >>

\* no call of a side-effect-free function is being looked at
NoCall == [fn |-> "none"]

FnInit ==
    /\ fnArg = NoCall
    /\ fnRes = NoCall

\* number of requests for the dataset metrics in a behaviour
MaxMetricsCalls == 2
\* number of deploy requests in a behaviour
MaxDeploys == 1

\* a metrics request that has not been made: its locals total_documents,
\* total_pairs, verified_pairs and last_updated, and the snapshot it returns
NoMetricsRequest ==
    [ pc |-> "idle", kind |-> "none", total_documents |-> 0, total_pairs |-> 0,
      verified_pairs |-> 0, last_updated |-> 0, found |-> 0, resp |-> << >> ]

\* a deploy request that has not been made: the job it names, the model_id
\* it read, its response and the index of the row it inserted
NoDeploy == [pc |-> "idle", job_id |-> JUnknown, model_id |-> NoModel, resp |-> 0,
             deployment |-> 0]

AdInit ==
    /\ dataset_metrics = << >>
    /\ clock = 0
    /\ mreq = [r \in 1..MaxMetricsCalls |-> NoMetricsRequest]
    /\ deployments = << >>
    /\ deploy = [r \in 1..MaxDeploys |-> NoDeploy]

\* supabase.update("fine_tuning_jobs", data, {"id": job_id}): the row's fields
\* named in data are overwritten; no row matches an id that was never inserted
UpdateJob(jobs, id, data) ==
    IF id \in DOMAIN jobs
    THEN [jobs EXCEPT ![id] =
            [f \in DOMAIN jobs[id] |->
                IF f \in DOMAIN data THEN data[f] ELSE jobs[id][f]]]
    ELSE jobs

\* jobs[0]["logs"] if jobs else ""
LogsOf(jobs, id) == IF id \in DOMAIN jobs THEN jobs[id].logs ELSE << >>

NoCancel == [pc |-> "idle", job_id |-> JUnknown, logs |-> << >>, resp |-> 0]

FtInit ==
    /\ ftJobs = << >>
    /\ ftMetrics = << >>
    /\ ftValidation = << >>
    /\ reqPc = [j \in JobIds |-> "idle"]
    /\ reqErr = [j \in JobIds |-> ""]
    /\ simPc = [j \in JobIds |-> "none"]
    /\ simI = [j \in JobIds |-> 0]
    /\ simT = [j \in JobIds |-> 0]
    /\ simLogs = [j \in JobIds |-> << >>]
    /\ simErr = [j \in JobIds |-> ""]
    /\ cancel = [c \in 1..MaxCancels |-> NoCancel]

\* -------------------------------------------- create_fine_tuning_job
\* created_job = await supabase.insert("fine_tuning_jobs", job.dict())
CreateJob(j) ==
    /\ reqPc[j] = "idle"
    /\ storeUp
    /\ j \notin DOMAIN ftJobs
    /\ ftJobs' = ftJobs @@ (j :> NewJob)
    /\ reqPc' = [reqPc EXCEPT ![j] = "st_select"]
    /\ UNCHANGED << ftMetrics, ftValidation, reqErr, simPc, simI, simT, simLogs,
                    simErr, cancel, storeUp, outages >>
    /\ UNCHANGED << dpVars, fnVars, adVars >>

\* the insert raises: the request ends with an error and no job exists
CreateRaise(j) ==
    /\ reqPc[j] = "idle"
    /\ ~storeUp
    /\ UNCHANGED << storeUp, outages >>
    /\ reqPc' = [reqPc EXCEPT ![j] = "raised"]
    /\ reqErr' = [reqErr EXCEPT ![j] = ErrText("insert")]
    /\ UNCHANGED << ftJobs, ftMetrics, ftValidation, simPc, simI, simT, simLogs,
                    simErr, cancel >>
    /\ UNCHANGED << dpVars, fnVars, adVars >>

\* ---------------------------------------------------- start_training
\* jobs = await supabase.select(...); if not jobs: raise ValueError
StartSelect(j) ==
    /\ reqPc[j] = "st_select"
    /\ storeUp
    /\ IF j \in DOMAIN ftJobs
       THEN /\ reqPc' = [reqPc EXCEPT ![j] = "st_update"]
            /\ UNCHANGED reqErr
       ELSE /\ reqPc' = [reqPc EXCEPT ![j] = "st_except"]
            /\ reqErr' = [reqErr EXCEPT ![j] = "Job not found"]
    /\ UNCHANGED << ftJobs, ftMetrics, ftValidation, simPc, simI, simT, simLogs,
                    simErr, cancel, storeUp, outages >>
    /\ UNCHANGED << dpVars, fnVars, adVars >>

\* the fields start_training writes before it spawns the task
StartFields == [status |-> "training"]

\* await supabase.update(... status training ...); asyncio.create_task(...)
StartUpdate(j) ==
    /\ reqPc[j] = "st_update"
    /\ storeUp
    /\ ftJobs' = UpdateJob(ftJobs, j, StartFields)
    /\ simPc' = [simPc EXCEPT ![j] = "stage_select"]
    /\ simI' = [simI EXCEPT ![j] = 0]
    /\ reqPc' = [reqPc EXCEPT ![j] = "returned"]
    /\ UNCHANGED << ftMetrics, ftValidation, reqErr, simT, simLogs, simErr,
                    cancel, storeUp, outages >>
    /\ UNCHANGED << dpVars, fnVars, adVars >>

\* the select or the update of start_training raises
StartRaise(j) ==
    /\ reqPc[j] \in {"st_select", "st_update"}
    /\ ~storeUp
    /\ UNCHANGED << storeUp, outages >>
    /\ reqErr' = [reqErr EXCEPT ![j] =
                    ErrText(IF reqPc[j] = "st_select" THEN "select" ELSE "update")]
    /\ reqPc' = [reqPc EXCEPT ![j] = "st_except"]
    /\ UNCHANGED << ftJobs, ftMetrics, ftValidation, simPc, simI, simT, simLogs,
                    simErr, cancel >>
    /\ UNCHANGED << dpVars, fnVars, adVars >>

\* except Exception: update status failed, logs = "Training failed: ..."; raise
StartExcept(j) ==
    /\ reqPc[j] = "st_except"
    /\ storeUp
    /\ ftJobs' = UpdateJob(ftJobs, j,
                    [status |-> "failed", logs |-> << FailedLine(reqErr[j]) >>])
    /\ reqPc' = [reqPc EXCEPT ![j] = "raised"]
    /\ UNCHANGED << ftMetrics, ftValidation, reqErr, simPc, simI, simT, simLogs,
                    simErr, cancel, storeUp, outages >>
    /\ UNCHANGED << dpVars, fnVars, adVars >>

\* the update inside the except block raises as well
StartExceptRaise(j) ==
    /\ reqPc[j] = "st_except"
    /\ ~storeUp
    /\ UNCHANGED << storeUp, outages >>
    /\ reqPc' = [reqPc EXCEPT ![j] = "raised"]
    /\ UNCHANGED << ftJobs, ftMetrics, ftValidation, reqErr, simPc, simI, simT,
                    simLogs, simErr, cancel >>
    /\ UNCHANGED << dpVars, fnVars, adVars >>

\* ---------------------------------------------- _run_training_process
\* the store calls of the try block, by position
SimStoreOp(pc) ==
    CASE pc \in {"stage_select", "done_select"} -> "select"
      [] pc \in {"eval_insert", "val_insert"} -> "insert"
      [] pc \in {"stage_update", "eval_update", "done_update"} -> "update"

SimTryCalls == {"stage_select", "stage_update", "eval_update", "eval_insert",
                "val_insert", "done_select", "done_update"}

\* jobs = await supabase.select(...); current_logs = jobs[0]["logs"] if jobs else ""
SimStageSelect(j) ==
    /\ simPc[j] = "stage_select"
    /\ storeUp
    /\ simLogs' = [simLogs EXCEPT ![j] = LogsOf(ftJobs, j)]
    /\ simPc' = [simPc EXCEPT ![j] = "stage_update"]
    /\ UNCHANGED << ftJobs, ftMetrics, ftValidation, reqPc, reqErr, simI, simT,
                    simErr, cancel, storeUp, outages >>
    /\ UNCHANGED << dpVars, fnVars, adVars >>

\* the fields a stage update writes
StageFields(i, current_logs) ==
    [ progress |-> StageProgress(i),
      logs     |-> Append(current_logs, training_stages[i + 1]) ]

\* await supabase.update(... progress, logs ...)
SimStageUpdate(j) ==
    /\ simPc[j] = "stage_update"
    /\ storeUp
    /\ ftJobs' = UpdateJob(ftJobs, j, StageFields(simI[j], simLogs[j]))
    /\ simPc' = [simPc EXCEPT ![j] = "stage_sleep"]
    /\ UNCHANGED << ftMetrics, ftValidation, reqPc, reqErr, simI, simT, simLogs,
                    simErr, cancel, storeUp, outages >>
    /\ UNCHANGED << dpVars, fnVars, adVars >>

\* await asyncio.sleep(2), then the next iteration or the end of the loop
SimStageSleep(j) ==
    /\ simPc[j] = "stage_sleep"
    /\ IF simI[j] + 1 < Len(training_stages)
       THEN /\ simI' = [simI EXCEPT ![j] = simI[j] + 1]
            /\ simPc' = [simPc EXCEPT ![j] = "stage_select"]
       ELSE /\ simPc' = [simPc EXCEPT ![j] = "eval_update"]
            /\ UNCHANGED simI
    /\ UNCHANGED << ftJobs, ftMetrics, ftValidation, reqPc, reqErr, simT, simLogs,
                    simErr, cancel, storeUp, outages >>
    /\ UNCHANGED << dpVars, fnVars, adVars >>

\* the move to the evaluation phase without its status
EvaluatingFieldsProgressOnly == [progress |-> 80]

\* the fields of the move to the evaluation phase
EvaluatingFields == [status |-> "evaluating", progress |-> 80]

\* await supabase.update(... {"status": "evaluating", "progress": 80} ...)
SimEvaluating(j) ==
    /\ simPc[j] = "eval_update"
    /\ storeUp
    /\ ftJobs' = UpdateJob(ftJobs, j, EvaluatingFields)
    /\ simPc' = [simPc EXCEPT ![j] = "eval_sleep"]
    /\ UNCHANGED << ftMetrics, ftValidation, reqPc, reqErr, simI, simT, simLogs,
                    simErr, cancel, storeUp, outages >>
    /\ UNCHANGED << dpVars, fnVars, adVars >>

\* _evaluate_model: await asyncio.sleep(3)
SimEvalSleep(j) ==
    /\ simPc[j] = "eval_sleep"
    /\ simPc' = [simPc EXCEPT ![j] = "eval_insert"]
    /\ UNCHANGED << ftJobs, ftMetrics, ftValidation, reqPc, reqErr, simI, simT,
                    simLogs, simErr, cancel, storeUp, outages >>
    /\ UNCHANGED << dpVars, fnVars, adVars >>

\* base_score = 0.75 + (hash(job_id) % 20) / 100, in hundredths
BaseScore(h) == 75 + (h % 20)

\* TrainingMetrics(job_id=..., overall_score=base_score, ...)
MetricsRow(id, h) == [job_id |-> id, overall_score |-> BaseScore(h)]

\* _evaluate_model: await supabase.insert("training_metrics", metrics.dict())
SimEvalInsert(j) ==
    /\ simPc[j] = "eval_insert"
    /\ storeUp
    /\ \E h \in HashValues : ftMetrics' = Append(ftMetrics, MetricsRow(j, h))
    /\ simT' = [simT EXCEPT ![j] = 1]
    /\ simPc' = [simPc EXCEPT ![j] = "val_sleep"]
    /\ UNCHANGED << ftJobs, ftValidation, reqPc, reqErr, simI, simLogs, simErr,
                    cancel, storeUp, outages >>
    /\ UNCHANGED << dpVars, fnVars, adVars >>

\* _run_validation_tests: await asyncio.sleep(1)
SimValSleep(j) ==
    /\ simPc[j] = "val_sleep"
    /\ simPc' = [simPc EXCEPT ![j] = "val_insert"]
    /\ UNCHANGED << ftJobs, ftMetrics, ftValidation, reqPc, reqErr, simI, simT,
                    simLogs, simErr, cancel, storeUp, outages >>
    /\ UNCHANGED << dpVars, fnVars, adVars >>

\* ValidationResult(job_id=..., test_category=test["category"], ...)
ValidationRow(id, t) == [job_id |-> id, test_category |-> test_queries[t]]

\* the validation loop leaving one test early
SimValInsertEarlyExit(j) ==
    /\ simPc[j] = "val_insert"
    /\ storeUp
    /\ ftValidation' = Append(ftValidation, ValidationRow(j, simT[j]))
    /\ IF simT[j] + 1 < Len(test_queries)
       THEN /\ simT' = [simT EXCEPT ![j] = simT[j] + 1]
            /\ simPc' = [simPc EXCEPT ![j] = "val_sleep"]
       ELSE /\ simPc' = [simPc EXCEPT ![j] = "done_select"]
            /\ UNCHANGED simT
    /\ UNCHANGED << ftJobs, ftMetrics, reqPc, reqErr, simI, simLogs, simErr,
                    cancel, storeUp, outages >>
    /\ UNCHANGED << dpVars, fnVars, adVars >>

\* _run_validation_tests: await supabase.insert("validation_results", ...)
SimValInsert(j) ==
    /\ simPc[j] = "val_insert"
    /\ storeUp
    /\ ftValidation' = Append(ftValidation, ValidationRow(j, simT[j]))
    /\ IF simT[j] < Len(test_queries)
       THEN /\ simT' = [simT EXCEPT ![j] = simT[j] + 1]
            /\ simPc' = [simPc EXCEPT ![j] = "val_sleep"]
       ELSE /\ simPc' = [simPc EXCEPT ![j] = "done_select"]
            /\ UNCHANGED simT
    /\ UNCHANGED << ftJobs, ftMetrics, reqPc, reqErr, simI, simLogs, simErr,
                    cancel, storeUp, outages >>
    /\ UNCHANGED << dpVars, fnVars, adVars >>

\* jobs = await supabase.select(...) before the completing update
SimDoneSelect(j) ==
    /\ simPc[j] = "done_select"
    /\ storeUp
    /\ simLogs' = [simLogs EXCEPT ![j] = LogsOf(ftJobs, j)]
    /\ simPc' = [simPc EXCEPT ![j] = "done_update"]
    /\ UNCHANGED << ftJobs, ftMetrics, ftValidation, reqPc, reqErr, simI, simT,
                    simErr, cancel, storeUp, outages >>
    /\ UNCHANGED << dpVars, fnVars, adVars >>

\* the completing update without its status
CompletedFieldsKeepStatus(id, current_logs) ==
    [ progress |-> 100,
      end_time |-> TRUE,
      model_id |-> ModelId(id),
      logs     |-> Append(current_logs, CompletedLine) ]

\* the fields of the completing update
CompletedFields(id, current_logs) ==
    [ status   |-> "completed",
      progress |-> 100,
      end_time |-> TRUE,
      model_id |-> ModelId(id),
      logs     |-> Append(current_logs, CompletedLine) ]

\* await supabase.update(... status completed ...): the task returns
SimDoneUpdate(j) ==
    /\ simPc[j] = "done_update"
    /\ storeUp
    /\ ftJobs' = UpdateJob(ftJobs, j, CompletedFields(j, simLogs[j]))
    /\ simPc' = [simPc EXCEPT ![j] = "finished"]
    /\ UNCHANGED << ftMetrics, ftValidation, reqPc, reqErr, simI, simT, simLogs,
                    simErr, cancel, storeUp, outages >>
    /\ UNCHANGED << dpVars, fnVars, adVars >>

\* a store call of the try block raises: control moves to the except block
SimRaise(j) ==
    /\ simPc[j] \in SimTryCalls
    /\ ~storeUp
    /\ UNCHANGED << storeUp, outages >>
    /\ simErr' = [simErr EXCEPT ![j] = ErrText(SimStoreOp(simPc[j]))]
    /\ simPc' = [simPc EXCEPT ![j] = "except_select"]
    /\ UNCHANGED << ftJobs, ftMetrics, ftValidation, reqPc, reqErr, simI, simT,
                    simLogs, cancel >>
    /\ UNCHANGED << dpVars, fnVars, adVars >>

\* except Exception: jobs = await supabase.select(...)
SimExceptSelect(j) ==
    /\ simPc[j] = "except_select"
    /\ storeUp
    /\ simLogs' = [simLogs EXCEPT ![j] = LogsOf(ftJobs, j)]
    /\ simPc' = [simPc EXCEPT ![j] = "except_update"]
    /\ UNCHANGED << ftJobs, ftMetrics, ftValidation, reqPc, reqErr, simI, simT,
                    simErr, cancel, storeUp, outages >>
    /\ UNCHANGED << dpVars, fnVars, adVars >>

\* the fields the except block writes
FailedFields(current_logs, e) ==
    [ status   |-> "failed",
      end_time |-> TRUE,
      logs     |-> Append(current_logs, FailedLine(e)) ]

\* except Exception: await supabase.update(... status failed ...)
SimExceptUpdate(j) ==
    /\ simPc[j] = "except_update"
    /\ storeUp
    /\ ftJobs' = UpdateJob(ftJobs, j, FailedFields(simLogs[j], simErr[j]))
    /\ simPc' = [simPc EXCEPT ![j] = "finished"]
    /\ UNCHANGED << ftMetrics, ftValidation, reqPc, reqErr, simI, simT, simLogs,
                    simErr, cancel, storeUp, outages >>
    /\ UNCHANGED << dpVars, fnVars, adVars >>

\* a store call of the except block raises: nothing catches it, the task dies
SimExceptRaise(j) ==
    /\ simPc[j] \in {"except_select", "except_update"}
    /\ ~storeUp
    /\ UNCHANGED << storeUp, outages >>
    /\ simPc' = [simPc EXCEPT ![j] = "crashed"]
    /\ UNCHANGED << ftJobs, ftMetrics, ftValidation, reqPc, reqErr, simI, simT,
                    simLogs, simErr, cancel >>
    /\ UNCHANGED << dpVars, fnVars, adVars >>

\* ------------------------------------------------ cancel_fine_tuning_job
\* job["status"] not in ["preparing", "training"]
Cancellable == {"preparing", "training"}

\* jobs = await supabase.select(...), the 404 and the 400 checks
CancelSelect(c, id) ==
    /\ cancel[c].pc = "idle"
    /\ storeUp
    /\ cancel' = [cancel EXCEPT ![c] =
         IF id \notin DOMAIN ftJobs
         THEN [pc |-> "done", job_id |-> id, logs |-> << >>, resp |-> 404]
         ELSE IF ftJobs[id].status \notin Cancellable
         THEN [pc |-> "done", job_id |-> id, logs |-> << >>, resp |-> 400]
         ELSE [pc |-> "update", job_id |-> id, logs |-> ftJobs[id].logs,
               resp |-> 0]]
    /\ UNCHANGED << ftJobs, ftMetrics, ftValidation, reqPc, reqErr, simPc, simI,
                    simT, simLogs, simErr, storeUp, outages >>
    /\ UNCHANGED << dpVars, fnVars, adVars >>

\* the fields cancel writes
CancelFields(logs) ==
    [ status   |-> "failed",
      end_time |-> TRUE,
      logs     |-> Append(logs, CancelLine) ]

\* await supabase.update(... status failed ...); return the success message
CancelUpdate(c) ==
    /\ cancel[c].pc = "update"
    /\ storeUp
    /\ ftJobs' = UpdateJob(ftJobs, cancel[c].job_id, CancelFields(cancel[c].logs))
    /\ cancel' = [cancel EXCEPT ![c].pc = "done", ![c].resp = 200]
    /\ UNCHANGED << ftMetrics, ftValidation, reqPc, reqErr, simPc, simI, simT,
                    simLogs, simErr, storeUp, outages >>
    /\ UNCHANGED << dpVars, fnVars, adVars >>

\* the select or the update of the cancel request raises
CancelRaise(c, id) ==
    /\ cancel[c].pc \in {"idle", "update"}
    /\ cancel[c].pc = "update" => id = cancel[c].job_id
    /\ ~storeUp
    /\ UNCHANGED << storeUp, outages >>
    /\ cancel' = [cancel EXCEPT ![c].pc = "done", ![c].job_id = id,
                                ![c].resp = 500]
    /\ UNCHANGED << ftJobs, ftMetrics, ftValidation, reqPc, reqErr, simPc, simI,
                    simT, simLogs, simErr >>
    /\ UNCHANGED << dpVars, fnVars, adVars >>

\* ------------------------------------------------------------ deploy_model
\* metrics[0]["overall_score"] < 0.7, in hundredths
QualityThreshold == 70

\* supabase.select("training_metrics", filters={"job_id": job_id})
SelectMetrics(id) == SelectSeq(ftMetrics, LAMBDA m : m.job_id = id)

\* not metrics or metrics[0]["overall_score"] < 0.7
QualityTooLow(metrics) ==
    metrics = << >> \/ metrics[1].overall_score < QualityThreshold

\* job["status"] != "completed"
NotDeployable(job) == job.status # "completed"

\* jobs = await supabase.select(...), the 404 and the 400 checks
DeploySelectJob(r, id) ==
    /\ deploy[r].pc = "idle"
    /\ storeUp
    /\ deploy' = [deploy EXCEPT ![r] =
         IF id \notin DOMAIN ftJobs
         THEN [@ EXCEPT !.pc = "done", !.job_id = id, !.resp = 404]
         ELSE IF NotDeployable(ftJobs[id])
         THEN [@ EXCEPT !.pc = "done", !.job_id = id, !.resp = 400]
         ELSE [@ EXCEPT !.pc = "select_metrics", !.job_id = id,
                        !.model_id = ftJobs[id].model_id]]
    /\ UNCHANGED << dataset_metrics, clock, mreq, deployments >>
    /\ UNCHANGED << ftVars, dpVars, fnVars >>

\* metrics = await supabase.select("training_metrics", ...) and the 400 check
DeploySelectMetrics(r) ==
    /\ deploy[r].pc = "select_metrics"
    /\ storeUp
    /\ deploy' = [deploy EXCEPT ![r] =
         IF QualityTooLow(SelectMetrics(deploy[r].job_id))
         THEN [@ EXCEPT !.pc = "done", !.resp = 400]
         ELSE [@ EXCEPT !.pc = "insert"]]
    /\ UNCHANGED << dataset_metrics, clock, mreq, deployments >>
    /\ UNCHANGED << ftVars, dpVars, fnVars >>

\* ModelDeployment(job_id=..., model_endpoint=..., deployment_status="deploying")
NewDeployment(job_id, model_id) ==
    [ job_id            |-> job_id,
      model_endpoint    |-> model_id,
      deployment_status |-> "deploying" ]

\* created_deployment = await supabase.insert("model_deployments", ...)
DeployInsert(r) ==
    /\ deploy[r].pc = "insert"
    /\ storeUp
    /\ deployments' = Append(deployments,
                             NewDeployment(deploy[r].job_id, deploy[r].model_id))
    /\ deploy' = [deploy EXCEPT ![r].pc = "update",
                                ![r].deployment = Len(deployments) + 1]
    /\ UNCHANGED << dataset_metrics, clock, mreq >>
    /\ UNCHANGED << ftVars, dpVars, fnVars >>

\* await supabase.update("model_deployments", {"deployment_status": "active"}, ...)
DeployUpdate(r) ==
    /\ deploy[r].pc = "update"
    /\ storeUp
    /\ deployments' = [deployments EXCEPT
                          ![deploy[r].deployment].deployment_status = "active"]
    /\ deploy' = [deploy EXCEPT ![r].pc = "done", ![r].resp = 200]
    /\ UNCHANGED << dataset_metrics, clock, mreq >>
    /\ UNCHANGED << ftVars, dpVars, fnVars >>

\* a store call of the deploy request raises
DeployRaise(r, id) ==
    /\ deploy[r].pc \in {"idle", "select_metrics", "insert", "update"}
    /\ deploy[r].pc # "idle" => id = deploy[r].job_id
    /\ ~storeUp
    /\ deploy' = [deploy EXCEPT ![r].pc = "done", ![r].job_id = id, ![r].resp = 500]
    /\ UNCHANGED << dataset_metrics, clock, mreq, deployments >>
    /\ UNCHANGED << ftVars, dpVars, fnVars >>

DeployStep ==
    \E r \in 1..MaxDeploys :
        \/ \E id \in RaceJobs \cup {JUnknown} : DeploySelectJob(r, id)
        \/ DeploySelectMetrics(r)
        \/ DeployInsert(r)
        \/ DeployUpdate(r)
        \/ \E id \in RaceJobs \cup {JUnknown} : DeployRaise(r, id)

\* ------------------------------------------------------ specifications
\* ==================================================== data preparation
\* ---------------------------------------------------------- documents
\* The text of a document is abstracted to what the service reads of it:
\*   plain    words that match no pattern,
\*   stops    periods outside any pattern match,
\*   raw      the sensitive patterns that occur (one occurrence each),
\*   redacted the redaction tokens that occur,
\*   keywords the domain categories one of whose keywords occurs,
\*   clauses  the paragraphs of more than 10 and fewer than 100 words.

\* DataPreparationService.__init__ and _anonymize_names, in order of application
sensitive_patterns == << "ssn", "email", "phone", "address", "amount", "name", "title" >>

\* words of one occurrence: "123-45-6789", "jane@law.com", "555-123-4567",
\* "12 Main Street", "$1,000", "John Smith", "Mr. Smith"
PatternWords(p) ==
    CASE p = "address" -> 3
      [] p \in {"name", "title"} -> 2
      [] OTHER -> 1

\* periods of one occurrence
PatternStops(p) == IF p \in {"email", "title"} THEN 1 ELSE 0

RECURSIVE SumOver(_, _)
SumOver(S, f) ==
    IF S = {} THEN 0
    ELSE LET x == CHOOSE y \in S : TRUE IN f[x] + SumOver(S \ {x}, f)

\* len(content.split()): a redaction token is one word
WordCount(c) ==
    c.plain + SumOver(c.raw, [p \in c.raw |-> PatternWords(p)])
            + Cardinality(c.redacted)

\* len(content.split('.')): one more than the number of periods
SentenceCount(c) ==
    c.stops + SumOver(c.raw, [p \in c.raw |-> PatternStops(p)]) + 1

\* re.sub(pattern, replacement, anonymized): every match becomes the token
ApplyPattern(c, p) ==
    IF p \in c.raw
    THEN [c EXCEPT !.raw = c.raw \ {p},
                   !.redacted = c.redacted \cup {IF p = "title" THEN "name" ELSE p}]
    ELSE c

RECURSIVE ApplyPatterns(_, _)
ApplyPatterns(c, ps) ==
    IF ps = << >> THEN c ELSE ApplyPatterns(ApplyPattern(c, Head(ps)), Tail(ps))

\* _anonymize_content
AnonymizeContent(c) == ApplyPatterns(c, sensitive_patterns)

\* a classification by word count alone
AssessComplexityWordsOnly(c) ==
    LET w == WordCount(c)
    IN  IF w > 5000 THEN "high"
        ELSE IF w > 2000 THEN "medium"
        ELSE "low"

\* a classification whose average is the integer quotient word_count // len(sentences)
AssessComplexityFloorDivision(c) ==
    LET w == WordCount(c)
        n == SentenceCount(c)
    IN  IF w \div n > 25 \/ w > 5000 THEN "high"
        ELSE IF w \div n > 15 \/ w > 2000 THEN "medium"
        ELSE "low"

\* _assess_complexity: avg_sentence_length = word_count / len(sentences)
AssessComplexity(c) ==
    LET w == WordCount(c)
        n == SentenceCount(c)
    IN  IF w > 25 * n \/ w > 5000 THEN "high"
        ELSE IF w > 15 * n \/ w > 2000 THEN "medium"
        ELSE "low"

\* the keys of domain_keywords, in dict order
domain_keywords == << "employment", "contracts", "intellectual_property",
                      "privacy", "liability", "real_estate", "corporate" >>

\* a tagging that stops at the first category that matches
ExtractDomainsFirstOnly(c) ==
    LET domains == SelectSeq(domain_keywords, LAMBDA d : d \in c.keywords)
    IN  IF domains # << >> THEN << Head(domains) >> ELSE << "general" >>

\* _extract_domains
ExtractDomains(c) ==
    LET domains == SelectSeq(domain_keywords, LAMBDA d : d \in c.keywords)
    IN  IF domains # << >> THEN domains ELSE << "general" >>

\* texts an upload may carry
PlainText ==
    [plain |-> 50, stops |-> 3, raw |-> {}, redacted |-> {}, keywords |-> {},
     clauses |-> 0]
SensitiveText ==
    [plain |-> 40, stops |-> 1, raw |-> {"ssn", "email"}, redacted |-> {},
     keywords |-> {"contracts", "liability"}, clauses |-> 2]
Contents == {PlainText, SensitiveText}

\* LegalDocument(...) as upload_legal_document builds it
NewDocument(c) ==
    [ content       |-> c,
      word_count    |-> WordCount(c),
      complexity    |-> "medium",
      domains       |-> << >>,
      is_processed  |-> FALSE,
      is_anonymized |-> FALSE ]

\* ---------------------------------------------------------------- bounds
\* number of documents uploaded in a behaviour
MaxDocs == 2
\* number of data-processing jobs started in a behaviour
MaxDpJobs == 2
\* number of legal_documents rows removed behind the service's back
MaxDeletes == 1

\* a document id no insert ever returned
DUnknown == 9
\* document_ids a generate or anonymize request may name
DocLists == { <<1, 2>>, <<DUnknown>> }
\* pair_types a generate request may name
TypeLists == { <<"summarization", "clause_explanation">>, <<"qa", "risk_analysis">> }

\* progress, a float in the code, as the fraction num / den
Pct(num, den) == [num |-> num, den |-> den]

NoResults == [kind |-> "none"]

\* DataProcessingJob(...) as the three start_* methods build it
NewDpJob(job_type, total_items) ==
    [ job_type        |-> job_type,
      status          |-> "running",
      progress        |-> Pct(0, 1),
      total_items     |-> total_items,
      processed_items |-> 0,
      end_time        |-> FALSE,
      error_log       |-> "",
      output_pairs    |-> << >>,
      results         |-> NoResults ]

NoDocument == NewDocument(PlainText)

\* the locals of a background task
NewTask(kind, pc, document_ids, pair_types) ==
    [ kind         |-> kind,
      pc           |-> pc,
      document_ids |-> document_ids,
      pair_types   |-> pair_types,
      i            |-> 1,          \* index of doc_id in document_ids
      t            |-> 1,          \* index of pair_type in pair_types
      n            |-> 1,          \* index of pair_data in pairs
      document     |-> NoDocument, \* documents[0]
      content      |-> PlainText,  \* anonymized_content
      processed    |-> 0,          \* processed / processed_items
      generated    |-> << >>,      \* generated_pairs
      err          |-> "" ]        \* str(e) in the except block

\* uuid4 ids, numbered in the order of insertion
NextDocId == Cardinality(DOMAIN docs) + Cardinality(deleted) + 1
NextJobId == Cardinality(DOMAIN dpJobs) + 1

\* supabase.update(table, data, {"id": id}) on a table held as id -> row
UpdateRow(table, id, data) ==
    IF id \in DOMAIN table
    THEN [table EXCEPT ![id] =
            [f \in DOMAIN table[id] |->
                IF f \in DOMAIN data THEN data[f] ELSE table[id][f]]]
    ELSE table

\* table without the row id
RemoveRow(table, id) == [x \in DOMAIN table \ {id} |-> table[x]]

DpInit ==
    /\ docs = << >>
    /\ dpJobs = << >>
    /\ pairs = << >>
    /\ deleted = {}
    /\ task = << >>
    /\ pending = {}

\* ------------------------------------------------ upload_legal_document
\* created_document = await supabase.insert("legal_documents", document.dict())
UploadInsert(c) ==
    /\ storeUp
    /\ NextDocId <= MaxDocs
    /\ docs' = docs @@ (NextDocId :> NewDocument(c))
    /\ pending' = pending \cup {[kind |-> "upload", document_id |-> NextDocId]}
    /\ UNCHANGED << dpJobs, pairs, deleted, task, storeUp, outages >>
    /\ UNCHANGED << ftVars, fnVars, adVars >>

\* start_document_processing: insert the job, create the task, return its id
StartDocumentProcessing(r) ==
    /\ storeUp
    /\ r \in pending /\ r.kind = "upload"
    /\ NextJobId <= MaxDpJobs
    /\ dpJobs' = dpJobs @@ (NextJobId :> NewDpJob("document_processing", 1))
    /\ task' = task @@ (NextJobId :>
                  NewTask("document_processing", "pd_select", <<r.document_id>>, << >>))
    /\ pending' = pending \ {r}
    /\ UNCHANGED << docs, pairs, deleted, storeUp, outages >>
    /\ UNCHANGED << ftVars, fnVars, adVars >>

\* the second store call of a request raises: the request ends with an error
RequestRaise(r) ==
    /\ ~storeUp
    /\ r \in pending
    /\ pending' = pending \ {r}
    /\ UNCHANGED << docs, dpJobs, pairs, deleted, task, storeUp, outages >>
    /\ UNCHANGED << ftVars, fnVars, adVars >>

\* a row of legal_documents is removed from the shared store by its owner
\* (no code of the service deletes documents)
ExternalDelete(d) ==
    /\ d \in DOMAIN docs
    /\ Cardinality(deleted) < MaxDeletes
    /\ docs' = RemoveRow(docs, d)
    /\ deleted' = deleted \cup {d}
    /\ UNCHANGED << dpJobs, pairs, task, pending, storeUp, outages >>
    /\ UNCHANGED << ftVars, fnVars, adVars >>

\* --------------------------------------------------- the except blocks
\* the fields the except block of a task writes
DpFailedFields(e) == [status |-> "failed", end_time |-> TRUE, error_log |-> e]

\* except Exception as e: await supabase.update(... status failed ...)
ExceptBlock(k) ==
    /\ storeUp
    /\ task[k].pc = "except"
    /\ dpJobs' = UpdateRow(dpJobs, k, DpFailedFields(task[k].err))
    /\ task' = [task EXCEPT ![k].pc = "finished"]
    /\ UNCHANGED << docs, pairs, deleted, pending, storeUp, outages >>
    /\ UNCHANGED << ftVars, fnVars, adVars >>

\* the update of the except block raises: nothing catches it, the task dies
ExceptBlockRaise(k) ==
    /\ ~storeUp
    /\ task[k].pc = "except"
    /\ task' = [task EXCEPT ![k].pc = "crashed"]
    /\ UNCHANGED << docs, dpJobs, pairs, deleted, pending, storeUp, outages >>
    /\ UNCHANGED << ftVars, fnVars, adVars >>

\* the store primitive a task calls at each position of its try block
TaskStoreOp(pc) ==
    CASE pc \in {"pd_select", "gp_select", "an_select"} -> "select"
      [] pc = "gp_insert" -> "insert"
      [] OTHER -> "update"

TaskTryCalls(kind) ==
    CASE kind = "document_processing" ->
            {"pd_select", "pd_progress25", "pd_progress50", "pd_progress75",
             "pd_document", "pd_complete"}
      [] kind = "pair_generation" ->
            {"gp_select", "gp_insert", "gp_progress", "gp_complete"}
      [] kind = "anonymization" ->
            {"an_select", "an_update", "an_progress", "an_complete"}

\* a store call of the try block raises: control moves to the except block
TryRaise(k) ==
    /\ ~storeUp
    /\ task[k].pc \in TaskTryCalls(task[k].kind)
    /\ task' = [task EXCEPT ![k].pc = "except",
                            ![k].err = ErrText(TaskStoreOp(task[k].pc))]
    /\ UNCHANGED << docs, dpJobs, pairs, deleted, pending, storeUp, outages >>
    /\ UNCHANGED << ftVars, fnVars, adVars >>

\* ---------------------------------------------------- _process_document
\* documents = await supabase.select(...); if not documents: raise ValueError
PdSelect(k) ==
    /\ storeUp
    /\ task[k].pc = "pd_select"
    /\ LET d == task[k].document_ids[1]
       IN  task' = [task EXCEPT ![k] =
              IF d \in DOMAIN docs
              THEN [@ EXCEPT !.document = docs[d], !.pc = "pd_progress25"]
              ELSE [@ EXCEPT !.err = "Document not found", !.pc = "except"]]
    /\ UNCHANGED << docs, dpJobs, pairs, deleted, pending, storeUp, outages >>
    /\ UNCHANGED << ftVars, fnVars, adVars >>

\* update progress 25.0; anonymized_content = self._anonymize_content(...)
PdProgress25(k) ==
    /\ storeUp
    /\ task[k].pc = "pd_progress25"
    /\ dpJobs' = UpdateRow(dpJobs, k, [progress |-> Pct(25, 1)])
    /\ task' = [task EXCEPT ![k].content = AnonymizeContent(task[k].document.content),
                            ![k].pc = "pd_progress50"]
    /\ UNCHANGED << docs, pairs, deleted, pending, storeUp, outages >>
    /\ UNCHANGED << ftVars, fnVars, adVars >>

\* update progress 50.0; complexity and domains are computed from the locals
PdProgress50(k) ==
    /\ storeUp
    /\ task[k].pc = "pd_progress50"
    /\ dpJobs' = UpdateRow(dpJobs, k, [progress |-> Pct(50, 1)])
    /\ task' = [task EXCEPT ![k].pc = "pd_progress75"]
    /\ UNCHANGED << docs, pairs, deleted, pending, storeUp, outages >>
    /\ UNCHANGED << ftVars, fnVars, adVars >>

\* update progress 75.0
PdProgress75(k) ==
    /\ storeUp
    /\ task[k].pc = "pd_progress75"
    /\ dpJobs' = UpdateRow(dpJobs, k, [progress |-> Pct(75, 1)])
    /\ task' = [task EXCEPT ![k].pc = "pd_document"]
    /\ UNCHANGED << docs, pairs, deleted, pending, storeUp, outages >>
    /\ UNCHANGED << ftVars, fnVars, adVars >>

\* a document update that leaves the two flags alone
ProcessedFieldsNoFlags(anonymized_content) ==
    [ content    |-> anonymized_content,
      complexity |-> AssessComplexity(anonymized_content),
      domains    |-> ExtractDomains(anonymized_content) ]

\* the fields _process_document writes to the document
ProcessedFields(anonymized_content) ==
    [ content       |-> anonymized_content,
      complexity    |-> AssessComplexity(anonymized_content),
      domains       |-> ExtractDomains(anonymized_content),
      is_processed  |-> TRUE,
      is_anonymized |-> TRUE ]

\* await supabase.update("legal_documents", ...)
PdDocument(k) ==
    /\ storeUp
    /\ task[k].pc = "pd_document"
    /\ docs' = UpdateRow(docs, task[k].document_ids[1], ProcessedFields(task[k].content))
    /\ task' = [task EXCEPT ![k].pc = "pd_complete"]
    /\ UNCHANGED << dpJobs, pairs, deleted, pending, storeUp, outages >>
    /\ UNCHANGED << ftVars, fnVars, adVars >>

\* the fields of the completing update of _process_document
PdCompletedFields(anonymized_content) ==
    [ status          |-> "completed",
      progress        |-> Pct(100, 1),
      processed_items |-> 1,
      end_time        |-> TRUE,
      results         |-> [kind       |-> "document_processing",
                           anonymized |-> TRUE,
                           complexity |-> AssessComplexity(anonymized_content),
                           domains    |-> ExtractDomains(anonymized_content)] ]

\* the completing update of _process_document without leaving the try block
PdCompleteStaysInTry(k) ==
    /\ storeUp
    /\ task[k].pc = "pd_complete"
    /\ dpJobs' = UpdateRow(dpJobs, k, PdCompletedFields(task[k].content))
    /\ UNCHANGED << task, docs, pairs, deleted, pending, storeUp, outages >>
    /\ UNCHANGED << ftVars, fnVars, adVars >>

\* await supabase.update("data_processing_jobs", ... completed ...)
PdComplete(k) ==
    /\ storeUp
    /\ task[k].pc = "pd_complete"
    /\ dpJobs' = UpdateRow(dpJobs, k, PdCompletedFields(task[k].content))
    /\ task' = [task EXCEPT ![k].pc = "finished"]
    /\ UNCHANGED << docs, pairs, deleted, pending, storeUp, outages >>
    /\ UNCHANGED << ftVars, fnVars, adVars >>

\* ------------------------------------------------ _generate_pairs_for_type
Min(a, b) == IF a < b THEN a ELSE b

\* the pair_data dicts with one clause_explanation per extracted clause
PairsForTypeEveryClause(document, pair_type) ==
    CASE pair_type = "summarization" ->
            << [quality_score |-> 4, difficulty |-> "medium"],
               [quality_score |-> 3, difficulty |-> "easy"] >>
      [] pair_type = "clause_explanation" ->
            [x \in 1..Min(5, document.content.clauses) |->
                [quality_score |-> 4, difficulty |-> "medium"]]
      [] pair_type = "qa" ->
            << [quality_score |-> 4, difficulty |-> "easy"],
               [quality_score |-> 4, difficulty |-> "medium"],
               [quality_score |-> 3, difficulty |-> "hard"] >>
      [] OTHER -> << >>

\* the pair_data dicts built for one document and one pair type
PairsForType(document, pair_type) ==
    CASE pair_type = "summarization" ->
            << [quality_score |-> 4, difficulty |-> "medium"],
               [quality_score |-> 3, difficulty |-> "easy"] >>
      [] pair_type = "clause_explanation" ->
            \* clauses[:3] of _extract_sample_clauses(...)[:5]
            [x \in 1..Min(3, Min(5, document.content.clauses)) |->
                [quality_score |-> 4, difficulty |-> "medium"]]
      [] pair_type = "qa" ->
            << [quality_score |-> 4, difficulty |-> "easy"],
               [quality_score |-> 4, difficulty |-> "medium"],
               [quality_score |-> 3, difficulty |-> "hard"] >>
      [] OTHER -> << >>

\* PromptResponsePair(...) as _generate_pairs builds it
PairRow(doc_id, document, pair_type, pair_data) ==
    [ pair_type          |-> pair_type,
      source_document_id |-> doc_id,
      quality_score      |-> pair_data.quality_score,
      domain             |-> IF document.domains # << >>
                             THEN document.domains[1] ELSE "general",
      difficulty         |-> pair_data.difficulty,
      is_verified        |-> FALSE ]

\* ------------------------------------------------------- _generate_pairs
\* for doc_id in document_ids: the next document, or the end of the loop
GpNextDoc(tk) ==
    IF tk.i < Len(tk.document_ids)
    THEN [tk EXCEPT !.i = tk.i + 1, !.pc = "gp_select"]
    ELSE [tk EXCEPT !.pc = "gp_complete"]

\* for pair_type in pair_types: entering type t of the current document
GpEnterType(tk, t) ==
    IF t > Len(tk.pair_types)
    THEN GpNextDoc(tk)
    ELSE IF PairsForType(tk.document, tk.pair_types[t]) = << >>
         THEN [tk EXCEPT !.t = t, !.pc = "gp_progress"]
         ELSE [tk EXCEPT !.t = t, !.n = 1, !.pc = "gp_insert"]

\* documents = await supabase.select(...); if not documents: continue
GpSelect(k) ==
    /\ storeUp
    /\ task[k].pc = "gp_select"
    /\ LET d == task[k].document_ids[task[k].i]
       IN  task' = [task EXCEPT ![k] =
              IF d \in DOMAIN docs
              THEN GpEnterType([@ EXCEPT !.document = docs[d]], 1)
              ELSE GpNextDoc(@)]
    /\ UNCHANGED << docs, dpJobs, pairs, deleted, pending, storeUp, outages >>
    /\ UNCHANGED << ftVars, fnVars, adVars >>

\* created_pair = await supabase.insert("prompt_response_pairs", pair.dict())
\* (the row's uuid is named by the job and the position in generated_pairs)
GpInsert(k) ==
    /\ storeUp
    /\ task[k].pc = "gp_insert"
    /\ LET tk == task[k]
           ps == PairsForType(tk.document, tk.pair_types[tk.t])
           id == << k, Len(tk.generated) + 1 >>
       IN  /\ pairs' = pairs @@ (id :> PairRow(tk.document_ids[tk.i], tk.document,
                                               tk.pair_types[tk.t], ps[tk.n]))
           /\ task' = [task EXCEPT ![k] =
                 [@ EXCEPT !.generated = Append(tk.generated, id),
                           !.n = IF tk.n < Len(ps) THEN tk.n + 1 ELSE tk.n,
                           !.pc = IF tk.n < Len(ps) THEN "gp_insert"
                                  ELSE "gp_progress"]]
    /\ UNCHANGED << docs, dpJobs, deleted, pending, storeUp, outages >>
    /\ UNCHANGED << ftVars, fnVars, adVars >>

\* progress computed against the number of documents alone
GpProgressPerDocument(k) ==
    /\ storeUp
    /\ task[k].pc = "gp_progress"
    /\ LET tk == task[k]
           processed_items == tk.processed + 1
       IN  /\ dpJobs' = UpdateRow(dpJobs, k,
                 [ progress |-> Pct(processed_items * 100, Len(tk.document_ids)),
                   processed_items |-> processed_items ])
           /\ task' = [task EXCEPT ![k] =
                 GpEnterType([@ EXCEPT !.processed = processed_items], tk.t + 1)]
    /\ UNCHANGED << docs, pairs, deleted, pending, storeUp, outages >>
    /\ UNCHANGED << ftVars, fnVars, adVars >>

\* processed_items += 1; progress = processed_items / (docs * types) * 100; update
GpProgress(k) ==
    /\ storeUp
    /\ task[k].pc = "gp_progress"
    /\ LET tk == task[k]
           processed_items == tk.processed + 1
       IN  /\ dpJobs' = UpdateRow(dpJobs, k,
                 [ progress |-> Pct(processed_items * 100,
                                    Len(tk.document_ids) * Len(tk.pair_types)),
                   processed_items |-> processed_items ])
           /\ task' = [task EXCEPT ![k] =
                 GpEnterType([@ EXCEPT !.processed = processed_items], tk.t + 1)]
    /\ UNCHANGED << docs, pairs, deleted, pending, storeUp, outages >>
    /\ UNCHANGED << ftVars, fnVars, adVars >>

\* the fields of the completing update of _generate_pairs
GpCompletedFields(generated_pairs, pair_types) ==
    [ status       |-> "completed",
      progress     |-> Pct(100, 1),
      end_time     |-> TRUE,
      output_pairs |-> generated_pairs,
      results      |-> [kind            |-> "pair_generation",
                        generated_pairs |-> Len(generated_pairs),
                        pair_types      |-> pair_types] ]

\* await supabase.update("data_processing_jobs", ... completed ...)
GpComplete(k) ==
    /\ storeUp
    /\ task[k].pc = "gp_complete"
    /\ dpJobs' = UpdateRow(dpJobs, k,
                    GpCompletedFields(task[k].generated, task[k].pair_types))
    /\ task' = [task EXCEPT ![k].pc = "finished"]
    /\ UNCHANGED << docs, pairs, deleted, pending, storeUp, outages >>
    /\ UNCHANGED << ftVars, fnVars, adVars >>

\* ------------------------------------------------- _anonymize_documents
\* for doc_id in document_ids: the next document, or the end of the loop
AnNextDoc(tk) ==
    IF tk.i < Len(tk.document_ids)
    THEN [tk EXCEPT !.i = tk.i + 1, !.pc = "an_select"]
    ELSE [tk EXCEPT !.pc = "an_complete"]

\* documents = await supabase.select(...); if documents and not is_anonymized
AnSelect(k) ==
    /\ storeUp
    /\ task[k].pc = "an_select"
    /\ LET d == task[k].document_ids[task[k].i]
       IN  task' = [task EXCEPT ![k] =
              IF d \in DOMAIN docs /\ ~docs[d].is_anonymized
              THEN [@ EXCEPT !.document = docs[d],
                             !.content = AnonymizeContent(docs[d].content),
                             !.pc = "an_update"]
              ELSE [@ EXCEPT !.pc = "an_progress"]]
    /\ UNCHANGED << docs, dpJobs, pairs, deleted, pending, storeUp, outages >>
    /\ UNCHANGED << ftVars, fnVars, adVars >>

\* await supabase.update("legal_documents", {content, is_anonymized}, ...)
AnUpdate(k) ==
    /\ storeUp
    /\ task[k].pc = "an_update"
    /\ docs' = UpdateRow(docs, task[k].document_ids[task[k].i],
                  [content |-> task[k].content, is_anonymized |-> TRUE])
    /\ task' = [task EXCEPT ![k].pc = "an_progress"]
    /\ UNCHANGED << dpJobs, pairs, deleted, pending, storeUp, outages >>
    /\ UNCHANGED << ftVars, fnVars, adVars >>

\* processed += 1; progress = processed / len(document_ids) * 100; update
AnProgress(k) ==
    /\ storeUp
    /\ task[k].pc = "an_progress"
    /\ LET tk == task[k]
           processed == tk.processed + 1
       IN  /\ dpJobs' = UpdateRow(dpJobs, k,
                 [ progress |-> Pct(processed * 100, Len(tk.document_ids)),
                   processed_items |-> processed ])
           /\ task' = [task EXCEPT ![k] = AnNextDoc([@ EXCEPT !.processed = processed])]
    /\ UNCHANGED << docs, pairs, deleted, pending, storeUp, outages >>
    /\ UNCHANGED << ftVars, fnVars, adVars >>

\* the fields of the completing update of _anonymize_documents
AnCompletedFields(processed) ==
    [ status   |-> "completed",
      progress |-> Pct(100, 1),
      end_time |-> TRUE,
      results  |-> [kind |-> "anonymization", anonymized_documents |-> processed] ]

\* the completing update of _anonymize_documents without leaving the try block
AnCompleteStaysInTry(k) ==
    /\ storeUp
    /\ task[k].pc = "an_complete"
    /\ dpJobs' = UpdateRow(dpJobs, k, AnCompletedFields(task[k].processed))
    /\ UNCHANGED << task, docs, pairs, deleted, pending, storeUp, outages >>
    /\ UNCHANGED << ftVars, fnVars, adVars >>

\* await supabase.update("data_processing_jobs", ... completed ...)
AnComplete(k) ==
    /\ storeUp
    /\ task[k].pc = "an_complete"
    /\ dpJobs' = UpdateRow(dpJobs, k, AnCompletedFields(task[k].processed))
    /\ task' = [task EXCEPT ![k].pc = "finished"]
    /\ UNCHANGED << docs, pairs, deleted, pending, storeUp, outages >>
    /\ UNCHANGED << ftVars, fnVars, adVars >>

\* ------------------------------------------- generate_training_pairs
\* the distinct rows a select with filter id in document_ids returns
SelectIn(document_ids) ==
    {document_ids[x] : x \in 1..Len(document_ids)} \cap DOMAIN docs

\* the request accepted without comparing the rows found with the ids asked
GenerateValidateNoCheck(document_ids, pair_types) ==
    /\ storeUp
    /\ Cardinality(DOMAIN dpJobs) + Cardinality(pending) < MaxDpJobs
    /\ pending' = pending \cup {[kind |-> "generate", document_ids |-> document_ids,
                                 pair_types |-> pair_types]}
    /\ UNCHANGED << docs, dpJobs, pairs, deleted, task, storeUp, outages >>
    /\ UNCHANGED << ftVars, fnVars, adVars >>

\* documents = await supabase.select(...); the 404 check
GenerateValidate(document_ids, pair_types) ==
    /\ storeUp
    /\ Cardinality(DOMAIN dpJobs) + Cardinality(pending) < MaxDpJobs
    /\ Cardinality(SelectIn(document_ids)) = Len(document_ids)
    /\ pending' = pending \cup {[kind |-> "generate", document_ids |-> document_ids,
                                 pair_types |-> pair_types]}
    /\ UNCHANGED << docs, dpJobs, pairs, deleted, task, storeUp, outages >>
    /\ UNCHANGED << ftVars, fnVars, adVars >>

\* the status of the response to a generate request: the 404 check
GenerateStatus(document_ids) ==
    IF Cardinality(SelectIn(document_ids)) # Len(document_ids) THEN 404 ELSE 200

\* generate_training_pairs up to the call of start_pair_generation, with the
\* response recorded: a rejected request leaves nothing behind
GenerateRequest(document_ids, pair_types) ==
    /\ storeUp
    /\ Cardinality(DOMAIN dpJobs) + Cardinality(pending) < MaxDpJobs
    /\ fnArg' = [fn |-> "generate", document_ids |-> document_ids,
                 pair_types |-> pair_types]
    /\ fnRes' = [fn |-> "generate", status |-> GenerateStatus(document_ids)]
    /\ pending' = IF GenerateStatus(document_ids) = 200
                  THEN pending \cup {[kind |-> "generate", document_ids |-> document_ids,
                                      pair_types |-> pair_types]}
                  ELSE pending
    /\ UNCHANGED << docs, dpJobs, pairs, deleted, task, storeUp, outages >>
    /\ UNCHANGED << ftVars, adVars >>

\* start_pair_generation: insert the job, create the task, return its id
StartPairGeneration(r) ==
    /\ storeUp
    /\ r \in pending /\ r.kind = "generate"
    /\ NextJobId <= MaxDpJobs
    /\ dpJobs' = dpJobs @@ (NextJobId :>
                    NewDpJob("pair_generation", Len(r.document_ids) * Len(r.pair_types)))
    /\ task' = task @@ (NextJobId :>
                  NewTask("pair_generation",
                          IF r.document_ids = << >> THEN "gp_complete" ELSE "gp_select",
                          r.document_ids, r.pair_types))
    /\ pending' = pending \ {r}
    /\ UNCHANGED << docs, pairs, deleted, storeUp, outages >>
    /\ UNCHANGED << ftVars, fnVars, adVars >>

\* ------------------------------------------------- anonymize_documents
\* start_anonymization: insert the job, create the task, return its id
StartAnonymization(document_ids) ==
    /\ storeUp
    /\ NextJobId <= MaxDpJobs
    /\ dpJobs' = dpJobs @@ (NextJobId :>
                    NewDpJob("anonymization", Len(document_ids)))
    /\ task' = task @@ (NextJobId :>
                  NewTask("anonymization",
                          IF document_ids = << >> THEN "an_complete" ELSE "an_select",
                          document_ids, << >>))
    /\ UNCHANGED << docs, pairs, deleted, pending, storeUp, outages >>
    /\ UNCHANGED << ftVars, fnVars, adVars >>

\* ------------------------------------------------------ the record store
\* the store starts to fail: every call raises until it recovers
StoreDown ==
    /\ storeUp
    /\ outages < MaxOutages
    /\ storeUp' = FALSE
    /\ outages' = outages + 1
    /\ UNCHANGED << ftJobs, ftMetrics, ftValidation, reqPc, reqErr, simPc, simI,
                    simT, simLogs, simErr, cancel >>
    /\ UNCHANGED << dpVars, fnVars, adVars >>

StoreRecover ==
    /\ ~storeUp
    /\ storeUp' = TRUE
    /\ UNCHANGED << ftJobs, ftMetrics, ftValidation, reqPc, reqErr, simPc, simI,
                    simT, simLogs, simErr, cancel, outages >>
    /\ UNCHANGED << dpVars, fnVars, adVars >>

Init ==
    /\ FtInit
    /\ AdInit
    /\ DpInit
    /\ FnInit
    /\ storeUp = TRUE
    /\ outages = 0

\* the steps of the create request and of the background task of job j
RequestStep(j) ==
    \/ StartSelect(j)
    \/ StartUpdate(j)

SimStep(j) ==
    \/ SimStageSelect(j)
    \/ SimStageUpdate(j)
    \/ SimStageSleep(j)
    \/ SimEvaluating(j)
    \/ SimEvalSleep(j)
    \/ SimEvalInsert(j)
    \/ SimValSleep(j)
    \/ SimValInsert(j)
    \/ SimDoneSelect(j)
    \/ SimDoneUpdate(j)

FailureStep(j) ==
    \/ CreateRaise(j)
    \/ StartRaise(j)
    \/ StartExcept(j)
    \/ StartExceptRaise(j)
    \/ SimRaise(j)
    \/ SimExceptSelect(j)
    \/ SimExceptUpdate(j)
    \/ SimExceptRaise(j)

CancelStep ==
    \E c \in 1..MaxCancels :
        \/ \E id \in RaceJobs \cup {JUnknown} : CancelSelect(c, id)
        \/ CancelUpdate(c)
        \/ \E id \in RaceJobs \cup {JUnknown} : CancelRaise(c, id)

\* one job, with cancel requests and store failures
Next ==
    \/ \E j \in RaceJobs : CreateJob(j) \/ RequestStep(j) \/ SimStep(j) \/ FailureStep(j)
    \/ CancelStep
    \/ StoreDown
    \/ StoreRecover

Spec == Init /\ [][Next]_vars

\* one job, with cancel and deploy requests and store failures
NextDeploy ==
    \/ \E j \in RaceJobs : CreateJob(j) \/ RequestStep(j) \/ SimStep(j) \/ FailureStep(j)
    \/ CancelStep
    \/ DeployStep
    \/ StoreDown
    \/ StoreRecover

SpecDeploy == Init /\ [][NextDeploy]_vars

\* several jobs, no cancel request and a store that does not fail
InitQuiet == Init

NextQuiet ==
    \E j \in JobIds : CreateJob(j) \/ RequestStep(j) \/ SimStep(j)

SpecQuiet == InitQuiet /\ [][NextQuiet]_vars

\* the data-preparation requests and background tasks, with store outages
\* and with rows of legal_documents removed behind the service's back
DpRequestStep ==
    \/ \E c \in Contents : UploadInsert(c)
    \/ \E r \in pending : StartDocumentProcessing(r)
    \/ \E ids \in DocLists, types \in TypeLists : GenerateValidate(ids, types)
    \/ \E r \in pending : StartPairGeneration(r)
    \/ \E ids \in DocLists : StartAnonymization(ids)
    \/ \E r \in pending : RequestRaise(r)

DpTaskStep(k) ==
    \/ PdSelect(k)
    \/ PdProgress25(k)
    \/ PdProgress50(k)
    \/ PdProgress75(k)
    \/ PdDocument(k)
    \/ PdComplete(k)
    \/ GpSelect(k)
    \/ GpInsert(k)
    \/ GpProgress(k)
    \/ GpComplete(k)
    \/ AnSelect(k)
    \/ AnUpdate(k)
    \/ AnProgress(k)
    \/ AnComplete(k)
    \/ TryRaise(k)
    \/ ExceptBlock(k)
    \/ ExceptBlockRaise(k)

NextDP ==
    \/ DpRequestStep
    \/ \E k \in DOMAIN task : DpTaskStep(k)
    \/ \E d \in DOMAIN docs : ExternalDelete(d)
    \/ StoreDown
    \/ StoreRecover

SpecDP == Init /\ [][NextDP]_vars

\* number of periods in an uploaded 50-word text
MaxStops == 3
\* 50-word texts with no sensitive pattern and no domain keyword
FiftyWordTexts == {[PlainText EXCEPT !.stops = s] : s \in 0..MaxStops}

\* upload, document processing and anonymization with a store that never
\* fails and documents nobody removes
DpQuietTaskStep(k) ==
    /\ k \in DOMAIN task
    /\ \/ PdSelect(k)
       \/ PdProgress25(k)
       \/ PdProgress50(k)
       \/ PdProgress75(k)
       \/ PdDocument(k)
       \/ PdComplete(k)
       \/ AnSelect(k)
       \/ AnUpdate(k)
       \/ AnProgress(k)
       \/ AnComplete(k)

\* the second store call of an upload request
DpQuietRequestRest == \E r \in pending : StartDocumentProcessing(r)

NextDPQuiet ==
    \/ \E c \in FiftyWordTexts \cup {SensitiveText} : UploadInsert(c)
    \/ \E ids \in DocLists : StartAnonymization(ids)
    \/ DpQuietRequestRest
    \/ \E k \in 1..MaxDpJobs : DpQuietTaskStep(k)

\* the event loop runs every task that is ready, a store call that does not
\* fail returns, and a request handler runs to its end
SpecDPQuiet ==
    /\ Init
    /\ [][NextDPQuiet]_vars
    /\ WF_vars(DpQuietRequestRest)
    /\ \A k \in 1..MaxDpJobs : WF_vars(DpQuietTaskStep(k))

\* a text of several paragraphs, four of them of clause length
LongText ==
    [plain |-> 120, stops |-> 8, raw |-> {"name"}, redacted |-> {},
     keywords |-> {"employment"}, clauses |-> 4]

\* a row of legal_documents after its processing job completed
ProcessedDocument(c) ==
    LET d == NewDocument(c)
        data == ProcessedFields(AnonymizeContent(c))
    IN  [f \in DOMAIN d |-> IF f \in DOMAIN data THEN data[f] ELSE d[f]]

\* rows the store may hold from earlier uploads
StoredDocuments ==
    {NewDocument(PlainText), ProcessedDocument(SensitiveText),
     ProcessedDocument(LongText)}

\* document_ids and pair_types a generate request may name
PairDocLists == { <<1, 2>>, <<2>>, << >>, <<1, 1>>, <<DUnknown>> }
PairTypeLists == TypeLists \cup { << >> }

\* a store that already holds MaxDocs documents and no job
InitStored ==
    /\ FtInit
    /\ AdInit
    /\ FnInit
    /\ storeUp = TRUE
    /\ outages = 0
    /\ docs \in [1..MaxDocs -> StoredDocuments]
    /\ dpJobs = << >>
    /\ pairs = << >>
    /\ deleted = {}
    /\ task = << >>
    /\ pending = {}

PairsTaskStep(k) ==
    \/ GpSelect(k)
    \/ GpInsert(k)
    \/ GpProgress(k)
    \/ GpComplete(k)

\* pair generation over stored documents, with a store that does not fail
NextPairs ==
    \/ \E ids \in PairDocLists, types \in PairTypeLists : GenerateValidate(ids, types)
    \/ \E r \in pending : StartPairGeneration(r)
    \/ \E k \in DOMAIN task : PairsTaskStep(k)
    \/ \E d \in DOMAIN docs : ExternalDelete(d)

SpecPairs == InitStored /\ [][NextPairs]_vars

\* pair generation with only the operations of the service acting on the
\* store: no code of the repository removes a row of legal_documents
NextPairsStable ==
    \/ \E ids \in PairDocLists, types \in PairTypeLists : GenerateValidate(ids, types)
    \/ \E r \in pending : StartPairGeneration(r)
    \/ \E k \in DOMAIN task : PairsTaskStep(k)

SpecPairsStable == InitStored /\ [][NextPairsStable]_vars

\* generate requests with their responses, and the jobs they start
NextGenerate ==
    \/ \E ids \in PairDocLists, types \in PairTypeLists : GenerateRequest(ids, types)
    \/ \E r \in pending : StartPairGeneration(r)
    \/ \E k \in DOMAIN task : PairsTaskStep(k)

SpecGenerate == InitStored /\ [][NextGenerate]_vars

\* ------------------------------------------------------ every kind of task
\* document_ids an anonymize or generate request may name: document 1 is
\* stored, document 2 only once it is uploaded
FairDocLists == { <<1, 2>>, <<1>>, << >> }
\* pair_types a generate request may name, the empty list among them
FairTypeLists == { <<"summarization", "risk_analysis">>, << >> }

\* a store that holds one processed document with clauses
InitFair ==
    /\ FtInit
    /\ AdInit
    /\ FnInit
    /\ storeUp = TRUE
    /\ outages = 0
    /\ docs = [d \in {1} |-> ProcessedDocument(LongText)]
    /\ dpJobs = << >>
    /\ pairs = << >>
    /\ deleted = {}
    /\ task = << >>
    /\ pending = {}

\* the steps of the data-processing task k
FairTaskStep(k) ==
    /\ k \in DOMAIN task
    /\ \/ PdSelect(k)
       \/ PdProgress25(k)
       \/ PdProgress50(k)
       \/ PdProgress75(k)
       \/ PdDocument(k)
       \/ PdComplete(k)
       \/ GpSelect(k)
       \/ GpInsert(k)
       \/ GpProgress(k)
       \/ GpComplete(k)
       \/ AnSelect(k)
       \/ AnUpdate(k)
       \/ AnProgress(k)
       \/ AnComplete(k)

\* the second store call of an upload or generate request
FairRequestRest ==
    \E r \in pending : StartDocumentProcessing(r) \/ StartPairGeneration(r)

\* the create request and the simulator of fine-tuning job j
FairJobStep(j) == RequestStep(j) \/ SimStep(j)

\* number of background tasks launched in a behaviour, of whatever kind
MaxFairTasks == 3

\* a further task may be launched
FairRoom ==
    Cardinality(DOMAIN dpJobs) + Cardinality(pending) + Cardinality(DOMAIN ftJobs)
        < MaxFairTasks

\* the requests that launch a task
FairLaunch ==
    /\ FairRoom
    /\ \/ UploadInsert(SensitiveText)
       \/ \E ids \in FairDocLists, types \in FairTypeLists : GenerateValidate(ids, types)
       \/ \E ids \in FairDocLists : StartAnonymization(ids)
       \/ \E j \in RaceJobs : CreateJob(j)

\* all four kinds of background task, no cancel request, a store that does
\* not fail and documents nobody removes
NextFair ==
    \/ FairLaunch
    \/ FairRequestRest
    \/ \E k \in 1..MaxDpJobs : FairTaskStep(k)
    \/ \E j \in RaceJobs : FairJobStep(j)

\* the event loop runs every task that is ready, asyncio.sleep and a store
\* call that does not fail return, and a request handler runs to its end
SpecFair ==
    /\ InitFair
    /\ [][NextFair]_vars
    /\ WF_vars(FairRequestRest)
    /\ \A k \in 1..MaxDpJobs : WF_vars(FairTaskStep(k))
    /\ \A j \in RaceJobs : WF_vars(FairJobStep(j))

\* ------------------------------------------------ _extract_sample_clauses
\* number of paragraphs of a text
MaxParas == 4
\* word counts of a paragraph
ParaWords == {9, 10, 11, 99, 100}
\* a text as the word counts of its paragraphs (content.split('\n\n'))
ParaSeqs == UNION {[1..n -> ParaWords] : n \in 0..MaxParas}

\* s[:n]
Take(s, n) == SubSeq(s, 1, Min(n, Len(s)))

\* the numbers 1..n in order
RECURSIVE Upto(_)
Upto(n) == IF n = 0 THEN << >> ELSE Append(Upto(n - 1), n)

\* _extract_sample_clauses: the paragraphs (by position) it returns
ExtractSampleClauses(paras) ==
    Take(SelectSeq(Upto(Len(paras)),
                   LAMBDA x : paras[x] > 10 /\ paras[x] < 100), 5)

\* for clause in clauses[:3]
ClausesExplained(paras) == Take(ExtractSampleClauses(paras), 3)

InitClauses ==
    /\ FtInit
    /\ AdInit
    /\ DpInit
    /\ storeUp = TRUE
    /\ outages = 0
    /\ fnArg \in {[fn |-> "clauses", paras |-> p] : p \in ParaSeqs}
    /\ fnRes = NoCall

\* clauses = self._extract_sample_clauses(document["content"]); clauses[:3]
ExtractCall ==
    /\ fnArg.fn = "clauses"
    /\ fnRes = NoCall
    /\ fnRes' = [fn |-> "clauses",
                 clauses |-> ExtractSampleClauses(fnArg.paras),
                 explained |-> ClausesExplained(fnArg.paras)]
    /\ UNCHANGED << ftVars, dpVars, adVars, fnArg >>

SpecClauses == InitClauses /\ [][ExtractCall]_vars

\* ------------------------------------------------------ _assess_complexity
\* word counts and numbers of period-separated segments of a text
ComplexityWords ==
    {0, 15, 16, 25, 26, 100, 150, 151, 250, 251, 1000, 2000, 2001, 5000, 5001, 6000}
ComplexitySegments == {1, 10, 20, 50, 134, 200, 400}

\* a text of w words in s period-separated segments, with no sensitive pattern
TextOf(w, s) ==
    [plain |-> w, stops |-> s - 1, raw |-> {}, redacted |-> {}, keywords |-> {},
     clauses |-> 0]

InitComplexity ==
    /\ FtInit
    /\ AdInit
    /\ DpInit
    /\ storeUp = TRUE
    /\ outages = 0
    /\ fnArg \in {[fn |-> "complexity", w |-> w, s |-> s] :
                     w \in ComplexityWords, s \in ComplexitySegments}
    /\ fnRes = NoCall

\* complexity = self._assess_complexity(anonymized_content)
ComplexityCall ==
    /\ fnArg.fn = "complexity"
    /\ fnRes = NoCall
    /\ fnRes' = [fn |-> "complexity",
                 tier |-> AssessComplexity(TextOf(fnArg.w, fnArg.s))]
    /\ UNCHANGED << ftVars, dpVars, adVars, fnArg >>

SpecComplexity == InitComplexity /\ [][ComplexityCall]_vars

\* -------------------------------------------------------- _extract_domains
\* the keyword lists of domain_keywords
KeywordsOf(d) ==
    CASE d = "employment" ->
            {"employment", "employee", "employer", "workplace", "salary", "benefits"}
      [] d = "contracts" ->
            {"contract", "agreement", "terms", "conditions", "obligations"}
      [] d = "intellectual_property" ->
            {"copyright", "trademark", "patent", "intellectual property"}
      [] d = "privacy" ->
            {"privacy", "data protection", "confidential", "personal information"}
      [] d = "liability" ->
            {"liability", "damages", "negligence", "responsibility"}
      [] d = "real_estate" ->
            {"property", "real estate", "lease", "rental", "mortgage"}
      [] d = "corporate" ->
            {"corporation", "company", "business", "shareholders", "board"}

\* pieces of text an input may contain
Fragments ==
    {"Employees", "TERMS", "Company Property", "Intellectual Property",
     "confidential", "Damages", "weather", "Tenant"}

\* content.lower()
Lower(f) ==
    CASE f = "Employees" -> "employees"
      [] f = "TERMS" -> "terms"
      [] f = "Company Property" -> "company property"
      [] f = "Intellectual Property" -> "intellectual property"
      [] f = "Damages" -> "damages"
      [] f = "Tenant" -> "tenant"
      [] OTHER -> f

\* the keywords that are substrings of a lower-cased piece
KeywordsIn(l) ==
    CASE l = "employees" -> {"employee"}
      [] l = "terms" -> {"terms"}
      [] l = "company property" -> {"company", "property"}
      [] l = "intellectual property" -> {"intellectual property", "property"}
      [] l = "confidential" -> {"confidential"}
      [] l = "damages" -> {"damages"}
      [] OTHER -> {}

\* any(keyword in content_lower for keyword in keywords), per category
CategoriesOf(frags) ==
    {d \in {domain_keywords[x] : x \in 1..Len(domain_keywords)} :
        \E f \in frags : KeywordsOf(d) \cap KeywordsIn(Lower(f)) # {}}

\* the text made of the pieces frags
TextWith(frags) ==
    [plain |-> 2 * Cardinality(frags), stops |-> 0, raw |-> {}, redacted |-> {},
     keywords |-> CategoriesOf(frags), clauses |-> 0]

InitDomains ==
    /\ FtInit
    /\ AdInit
    /\ DpInit
    /\ storeUp = TRUE
    /\ outages = 0
    /\ fnArg \in {[fn |-> "domains", frags |-> F] : F \in SUBSET Fragments}
    /\ fnRes = NoCall

\* domains = self._extract_domains(anonymized_content)
DomainsCall ==
    /\ fnArg.fn = "domains"
    /\ fnRes = NoCall
    /\ fnRes' = [fn |-> "domains", tags |-> ExtractDomains(TextWith(fnArg.frags)),
                 again |-> << >>]
    /\ UNCHANGED << ftVars, dpVars, adVars, fnArg >>

\* the same call on the same text once more
DomainsCallAgain ==
    /\ fnRes.fn = "domains"
    /\ fnRes.again = << >>
    /\ fnRes' = [fnRes EXCEPT !.again = ExtractDomains(TextWith(fnArg.frags))]
    /\ UNCHANGED << ftVars, dpVars, adVars, fnArg >>

NextDomains == DomainsCall \/ DomainsCallAgain

SpecDomains == InitDomains /\ [][NextDomains]_vars

\* ------------------------------------------------------------- aggregates
\* the elements of a list
Range(s) == {s[x] : x \in 1..Len(s)}

\* sum(list)
RECURSIVE SeqSum(_)
SeqSum(s) == IF s = << >> THEN 0 ELSE Head(s) + SeqSum(Tail(s))

\* what an aggregate expression evaluates to: the number num / den, the
\* exception of a division by 0, or None
Number(a, b) == [kind |-> "number", num |-> a, den |-> b]
Zero == Number(0, 1)
ZeroDivisionError == [kind |-> "ZeroDivisionError"]
None == [kind |-> "None"]

\* a / b of Python: the exact quotient, or the exception when b is 0
Quotient(a, b) == IF b = 0 THEN ZeroDivisionError ELSE Number(a, b)

\* the quotient computed whatever the divisor is
QuotientUnguarded(guard, a, b) == Quotient(a, b)

\* a / b if guard else 0
QuotientOrZero(guard, a, b) == IF guard THEN Quotient(a, b) ELSE Zero

\* str(score)
Str(q) ==
    CASE q = 1 -> "1" [] q = 2 -> "2" [] q = 3 -> "3" [] q = 4 -> "4" [] q = 5 -> "5"

\* {} of Python: the dict with no key
EmptyDict == [key \in {} |-> 0]

\* dist.get(key, 0)
Get(dist, key) == IF key \in DOMAIN dist THEN dist[key] ELSE 0

\* dist[key] = value
Put(dist, key, value) ==
    [k \in DOMAIN dist \cup {key} |-> IF k = key THEN value ELSE dist[k]]

\* for key in keys: dist[key] = dist.get(key, 0) + 1, starting from {}
RECURSIVE Tally(_)
Tally(keys) ==
    IF keys = << >> THEN EmptyDict
    ELSE LET dist == Tally(SubSeq(keys, 1, Len(keys) - 1))
             key == keys[Len(keys)]
         IN  Put(dist, key, Get(dist, key) + 1)

\* the domains the nested loop visits, in order: rows with domains None or []
\* are skipped
RECURSIVE DomainsVisited(_)
DomainsVisited(all_documents) ==
    IF all_documents = << >> THEN << >>
    ELSE LET doc == Head(all_documents)
         IN  (IF doc.domains # << >> THEN doc.domains ELSE << >>)
                \o DomainsVisited(Tail(all_documents))

\* the loop counting the first domain of each document only
DomainDistributionFirstTag(all_documents) ==
    LET tagged == SelectSeq(all_documents, LAMBDA d : d.domains # << >>)
    IN  Tally([x \in 1..Len(tagged) |-> Head(tagged[x].domains)])

\* the domain_distribution loop
DomainDistribution(all_documents) == Tally(DomainsVisited(all_documents))

\* calculate_dataset_metrics: the DatasetMetrics it builds from the two selects
DatasetMetricsOf(all_documents, all_pairs) ==
    LET total_pairs == Len(all_pairs)
        verified_pairs == Len(SelectSeq(all_pairs, LAMBDA p : p.is_verified))
    IN  [ total_documents         |-> Len(all_documents),
          total_pairs             |-> total_pairs,
          verified_pairs          |-> verified_pairs,
          type_distribution       |-> Tally([x \in 1..total_pairs |-> all_pairs[x].pair_type]),
          quality_distribution    |-> Tally([x \in 1..total_pairs |-> Str(all_pairs[x].quality_score)]),
          language_distribution   |-> Tally([x \in 1..Len(all_documents) |-> all_documents[x].language]),
          domain_distribution     |-> DomainDistribution(all_documents),
          average_prompt_length   |->
             QuotientOrZero(total_pairs # 0,
                SeqSum([x \in 1..total_pairs |-> all_pairs[x].prompt_len]), total_pairs),
          average_response_length |->
             QuotientOrZero(total_pairs # 0,
                SeqSum([x \in 1..total_pairs |-> all_pairs[x].response_len]), total_pairs),
          average_quality_score   |->
             QuotientOrZero(total_pairs # 0,
                SeqSum([x \in 1..total_pairs |-> all_pairs[x].quality_score]), total_pairs),
          verification_rate       |->
             QuotientOrZero(total_pairs > 0, verified_pairs * 100, total_pairs) ]

\* get_fine_tuning_stats: success_rate and average_completion_time
StatsScan(all_jobs) ==
    LET total_jobs == Len(all_jobs)
        completed_jobs == Len(SelectSeq(all_jobs, LAMBDA j : j.status = "completed"))
        completed_with_times ==
           SelectSeq(all_jobs, LAMBDA j : j.status = "completed" /\ j.end_time)
    IN  [ average_completion_time |->
             IF completed_with_times # << >>
             THEN Quotient(SeqSum([x \in 1..Len(completed_with_times) |->
                                      completed_with_times[x].seconds]),
                           Len(completed_with_times))
             ELSE None,
          success_rate |-> QuotientOrZero(total_jobs > 0, completed_jobs * 100, total_jobs) ]

\* get_overview_stats: success_rate and average_model_score
OverviewScan(all_jobs, all_metrics) ==
    LET completed_jobs == Len(SelectSeq(all_jobs, LAMBDA j : j.status = "completed"))
    IN  [ success_rate |->
             QuotientOrZero(all_jobs # << >>, completed_jobs * 100, Len(all_jobs)),
          average_model_score |->
             QuotientOrZero(all_metrics # << >>,
                SeqSum([x \in 1..Len(all_metrics) |-> all_metrics[x].overall_score]),
                Len(all_metrics)) ]

\* days a trend request looks at
TrendDays == {0, 1}

\* get_training_trends: average_score of each day
TrendScan(all_jobs, all_metrics) ==
    [day \in TrendDays |->
        LET completed_job_ids ==
               {all_jobs[x].id : x \in {y \in 1..Len(all_jobs) :
                   /\ all_jobs[y].end_time
                   /\ all_jobs[y].end_day = day
                   /\ all_jobs[y].status = "completed"}}
            relevant_metrics ==
               SelectSeq(all_metrics, LAMBDA m : m.job_id \in completed_job_ids)
        IN  QuotientOrZero(relevant_metrics # << >>,
               SeqSum([x \in 1..Len(relevant_metrics) |->
                         relevant_metrics[x].overall_score]),
               Len(relevant_metrics))]

\* get_data_quality_metrics: average_quality
DataQualityScan(all_pairs) ==
    LET total_pairs == Len(all_pairs)
    IN  QuotientOrZero(total_pairs # 0,
           SeqSum([x \in 1..total_pairs |-> all_pairs[x].quality_score]), total_pairs)

\* get_system_health: average_processing_time and error_rate
HealthScan(all_jobs) ==
    LET failed_jobs_24h ==
           Len(SelectSeq(all_jobs, LAMBDA j : j.status = "failed" /\ j.updated_recent))
        completed_jobs ==
           SelectSeq(all_jobs, LAMBDA j : j.status = "completed" /\ j.end_time)
        total_jobs_24h == Len(SelectSeq(all_jobs, LAMBDA j : j.created_recent))
    IN  [ average_processing_time |->
             IF completed_jobs # << >>
             THEN Quotient(SeqSum([x \in 1..Len(completed_jobs) |->
                                      completed_jobs[x].seconds]),
                           Len(completed_jobs))
             ELSE Zero,
          error_rate |->
             QuotientOrZero(total_jobs_24h > 0, failed_jobs_24h * 100, total_jobs_24h) ]

\* ---------------------------------------------- inputs of the aggregates
\* lengths of the collections an aggregate reads
MaxScanPairs == 4
MaxScanDocs == 2
MaxScanJobs == 2
MaxScanMetrics == 2

\* sequences of at most n elements of S
SeqsUpTo(S, n) == UNION {[1..m -> S] : m \in 0..n}

\* rows of prompt_response_pairs
ScanPairRows ==
    { [pair_type |-> "summarization", quality_score |-> 1, is_verified |-> FALSE,
       prompt_len |-> 10, response_len |-> 30],
      [pair_type |-> "qa", quality_score |-> 3, is_verified |-> TRUE,
       prompt_len |-> 20, response_len |-> 5],
      [pair_type |-> "clause_explanation", quality_score |-> 5, is_verified |-> TRUE,
       prompt_len |-> 7, response_len |-> 8] }

\* rows of legal_documents
ScanDocRows ==
    { [domains |-> << >>, language |-> "en"],
      [domains |-> << "general" >>, language |-> "en"],
      [domains |-> << "contracts", "liability" >>, language |-> "fr"] }

\* rows of fine_tuning_jobs: seconds is end_time - start_time, end_day the
\* day of end_time, the two flags whether created_at and updated_at lie in
\* the last 24 hours
ScanJobRows ==
    { [id |-> 1, status |-> "completed", end_time |-> TRUE, seconds |-> 40,
       end_day |-> 0, created_recent |-> TRUE, updated_recent |-> TRUE],
      [id |-> 2, status |-> "failed", end_time |-> TRUE, seconds |-> 10,
       end_day |-> 1, created_recent |-> TRUE, updated_recent |-> TRUE],
      [id |-> 3, status |-> "failed", end_time |-> TRUE, seconds |-> 10,
       end_day |-> 1, created_recent |-> FALSE, updated_recent |-> TRUE],
      [id |-> 4, status |-> "training", end_time |-> FALSE, seconds |-> 0,
       end_day |-> 0, created_recent |-> FALSE, updated_recent |-> FALSE] }

\* rows of training_metrics, overall_score in hundredths
ScanMetricRows ==
    { [job_id |-> 1, overall_score |-> 80],
      [job_id |-> 2, overall_score |-> 93],
      [job_id |-> 4, overall_score |-> 75] }

\* the tables read: documents and pairs, or jobs and metrics
AggregateInputs ==
    {[fn |-> "aggregate", documents |-> D, pairs |-> P, jobs |-> << >>, metrics |-> << >>] :
        D \in SeqsUpTo(ScanDocRows, MaxScanDocs), P \in SeqsUpTo(ScanPairRows, MaxScanPairs)}
    \cup
    {[fn |-> "aggregate", documents |-> << >>, pairs |-> << >>, jobs |-> J, metrics |-> M] :
        J \in SeqsUpTo(ScanJobRows, MaxScanJobs), M \in SeqsUpTo(ScanMetricRows, MaxScanMetrics)}

InitAggregates ==
    /\ FtInit
    /\ AdInit
    /\ DpInit
    /\ storeUp = TRUE
    /\ outages = 0
    /\ fnArg \in AggregateInputs
    /\ fnRes = NoCall

\* the aggregates computed from the rows read
AggregateCall ==
    /\ fnArg.fn = "aggregate"
    /\ fnRes = NoCall
    /\ fnRes' = [ fn       |-> "aggregate",
                  dataset  |-> DatasetMetricsOf(fnArg.documents, fnArg.pairs),
                  stats    |-> StatsScan(fnArg.jobs),
                  overview |-> OverviewScan(fnArg.jobs, fnArg.metrics),
                  trend    |-> TrendScan(fnArg.jobs, fnArg.metrics),
                  quality  |-> DataQualityScan(fnArg.pairs),
                  health   |-> HealthScan(fnArg.jobs) ]
    /\ UNCHANGED << ftVars, dpVars, adVars, fnArg >>

SpecAggregates == InitAggregates /\ [][AggregateCall]_vars

\* ====================================================== dataset metrics
\* order_by="-last_updated", limit=1 read in ascending order
LatestAscending(table) ==
    CHOOSE m \in Range(table) : \A o \in Range(table) : m.last_updated <= o.last_updated

\* order_by="-last_updated", limit=1: the row with the greatest last_updated
Latest(table) ==
    CHOOSE m \in Range(table) : \A o \in Range(table) : o.last_updated <= m.last_updated

\* the requests are numbered in the order in which they arrive
NextMetricsRequest(r) ==
    /\ mreq[r].pc = "idle"
    /\ \A q \in 1..(r - 1) : mreq[q].pc # "idle"

\* get_dataset_metrics: metrics = await supabase.select("dataset_metrics", ...);
\* return metrics[0], or go on to calculate when there is no row
GetMetricsSelect(r) ==
    /\ storeUp
    /\ NextMetricsRequest(r)
    /\ mreq' = [mreq EXCEPT ![r] =
          IF dataset_metrics # << >>
          THEN [@ EXCEPT !.kind = "get", !.found = Len(dataset_metrics),
                         !.resp = << Latest(dataset_metrics) >>, !.pc = "returned"]
          ELSE [@ EXCEPT !.kind = "get", !.pc = "select_documents"]]
    /\ UNCHANGED << dataset_metrics, clock, deployments, deploy >>
    /\ UNCHANGED << ftVars, dpVars, fnVars >>

\* calculate_dataset_metrics: all_documents = await supabase.select("legal_documents")
CalcSelectDocuments(r) ==
    /\ storeUp
    /\ mreq[r].pc = "select_documents"
    /\ mreq' = [mreq EXCEPT ![r].total_documents = Cardinality(DOMAIN docs),
                            ![r].pc = "select_pairs"]
    /\ UNCHANGED << dataset_metrics, clock, deployments, deploy >>
    /\ UNCHANGED << ftVars, dpVars, fnVars >>

\* refresh_dataset_metrics: the request calls calculate_dataset_metrics at once
RefreshSelectDocuments(r) ==
    /\ storeUp
    /\ NextMetricsRequest(r)
    /\ mreq' = [mreq EXCEPT ![r].kind = "refresh",
                            ![r].total_documents = Cardinality(DOMAIN docs),
                            ![r].pc = "select_pairs"]
    /\ UNCHANGED << dataset_metrics, clock, deployments, deploy >>
    /\ UNCHANGED << ftVars, dpVars, fnVars >>

\* all_pairs = await supabase.select("prompt_response_pairs"); the counts are
\* taken and DatasetMetrics(..., last_updated=datetime.utcnow()) is built
CalcSelectPairs(r) ==
    /\ storeUp
    /\ mreq[r].pc = "select_pairs"
    /\ clock' = clock + 1
    /\ mreq' = [mreq EXCEPT
          ![r].total_pairs = Cardinality(DOMAIN pairs),
          ![r].verified_pairs = Cardinality({x \in DOMAIN pairs : pairs[x].is_verified}),
          ![r].last_updated = clock + 1,
          ![r].pc = "insert"]
    /\ UNCHANGED << dataset_metrics, deployments, deploy >>
    /\ UNCHANGED << ftVars, dpVars, fnVars >>

\* the counts of the DatasetMetrics record a request built (its distributions
\* and averages are DatasetMetricsOf of the rows read)
Snapshot(m) ==
    [ total_documents |-> m.total_documents,
      total_pairs     |-> m.total_pairs,
      verified_pairs  |-> m.verified_pairs,
      last_updated    |-> m.last_updated ]

\* await supabase.insert("dataset_metrics", metrics.dict()); return metrics
CalcInsert(r) ==
    /\ storeUp
    /\ mreq[r].pc = "insert"
    /\ dataset_metrics' = Append(dataset_metrics, Snapshot(mreq[r]))
    /\ mreq' = [mreq EXCEPT ![r].resp = << Snapshot(mreq[r]) >>, ![r].pc = "returned"]
    /\ UNCHANGED << clock, deployments, deploy >>
    /\ UNCHANGED << ftVars, dpVars, fnVars >>

\* a store call of a metrics request raises: the request ends with an error
MetricsRaise(r, kind) ==
    /\ ~storeUp
    /\ \/ NextMetricsRequest(r)
       \/ mreq[r].pc \in {"select_documents", "select_pairs", "insert"} /\ kind = mreq[r].kind
    /\ mreq' = [mreq EXCEPT ![r].kind = kind, ![r].pc = "raised"]
    /\ UNCHANGED << dataset_metrics, clock, deployments, deploy >>
    /\ UNCHANGED << ftVars, dpVars, fnVars >>

MetricsStep(r) ==
    \/ GetMetricsSelect(r)
    \/ CalcSelectDocuments(r)
    \/ RefreshSelectDocuments(r)
    \/ CalcSelectPairs(r)
    \/ CalcInsert(r)
    \/ \E kind \in {"get", "refresh"} : MetricsRaise(r, kind)

\* what one generate request of the metrics behaviours names
MetricsDocList == << 1 >>
MetricsTypeList == << "summarization" >>

\* metrics requests while a pair-generation job adds pairs, with store outages
NextMetrics ==
    \/ \E r \in 1..MaxMetricsCalls : MetricsStep(r)
    \/ GenerateValidate(MetricsDocList, MetricsTypeList)
    \/ \E r \in pending : StartPairGeneration(r)
    \/ \E r \in pending : RequestRaise(r)
    \/ \E k \in DOMAIN task :
          PairsTaskStep(k) \/ TryRaise(k) \/ ExceptBlock(k) \/ ExceptBlockRaise(k)
    \/ StoreDown
    \/ StoreRecover

\* a snapshot stored by an earlier run, before any pair existed
StoredSnapshot ==
    [ total_documents |-> MaxDocs, total_pairs |-> 0, verified_pairs |-> 0,
      last_updated |-> 0 ]

\* a store that holds MaxDocs unprocessed documents and at most one snapshot
InitMetrics ==
    /\ FtInit
    /\ FnInit
    /\ storeUp = TRUE
    /\ outages = 0
    /\ docs = [d \in 1..MaxDocs |-> NewDocument(PlainText)]
    /\ dpJobs = << >>
    /\ pairs = << >>
    /\ deleted = {}
    /\ task = << >>
    /\ pending = {}
    /\ dataset_metrics \in { << >>, << StoredSnapshot >> }
    /\ clock = 0
    /\ mreq = [r \in 1..MaxMetricsCalls |-> NoMetricsRequest]
    /\ deployments = << >>
    /\ deploy = [r \in 1..MaxDeploys |-> NoDeploy]

SpecMetrics == InitMetrics /\ [][NextMetrics]_vars

\* =============================================================== export
\* An Optional argument is << >> for None and << v >> for the value v.
\* the six fields of an exported record, in the order of the dict literal
\* and of the CSV header
ExportFields == << "prompt", "response", "type", "quality", "domain", "difficulty" >>

\* the values written for one pair, in the same order
ExportValues(pair) ==
    << pair.prompt, pair.response, pair.pair_type, pair.quality_score,
       pair.domain, pair.difficulty >>

\* json.dumps(line): the key-value pairs of the dict, in insertion order
JsonLine(pair) == [x \in 1..Len(ExportFields) |-> << ExportFields[x], ExportValues(pair)[x] >>]

\* if pair_types: the argument is neither None nor an empty list
Truthy(optional_list) == optional_list # << >> /\ optional_list[1] # << >>

\* the three filters of export_dataset, applied one after the other
ExportFilter(all_pairs, pair_types, min_quality, verified_only) ==
    LET by_type ==
           IF Truthy(pair_types)
           THEN SelectSeq(all_pairs, LAMBDA p : p.pair_type \in Range(pair_types[1]))
           ELSE all_pairs
        by_quality ==
           IF min_quality # 0
           THEN SelectSeq(by_type, LAMBDA p : p.quality_score >= min_quality)
           ELSE by_type
    IN  IF verified_only
        THEN SelectSeq(by_quality, LAMBDA p : p.is_verified)
        ELSE by_quality

\* the export with a strict minimum-quality comparison
ExportDatasetStrictQuality(all_pairs, format, pair_types, min_quality, verified_only) ==
    LET filtered_pairs ==
           SelectSeq(ExportFilter(all_pairs, pair_types, 0, verified_only),
                     LAMBDA p : p.quality_score > min_quality)
    IN  CASE format = "jsonl" ->
               [ kind |-> "jsonl",
                 lines |-> [x \in 1..Len(filtered_pairs) |-> JsonLine(filtered_pairs[x])] ]
          [] format = "csv" ->
               [ kind |-> "csv",
                 lines |-> << ExportFields >> \o
                           [x \in 1..Len(filtered_pairs) |-> ExportValues(filtered_pairs[x])] ]
          [] OTHER -> [ kind |-> "ValueError", lines |-> << >> ]

\* DataPreparationService.export_dataset: the lines of the string returned
\* (joined by '\n' for jsonl, one writerow each for csv), or the ValueError
ExportDataset(all_pairs, format, pair_types, min_quality, verified_only) ==
    LET filtered_pairs == ExportFilter(all_pairs, pair_types, min_quality, verified_only)
    IN  CASE format = "jsonl" ->
               [ kind |-> "jsonl",
                 lines |-> [x \in 1..Len(filtered_pairs) |-> JsonLine(filtered_pairs[x])] ]
          [] format = "csv" ->
               [ kind |-> "csv",
                 lines |-> << ExportFields >> \o
                           [x \in 1..Len(filtered_pairs) |-> ExportValues(filtered_pairs[x])] ]
          [] OTHER -> [ kind |-> "ValueError", lines |-> << >> ]

\* characters of one exported line, and of the separator written with it
LineChars == 400
ResponseLimit == 1000

\* len(export_data): '\n'.join puts a separator between lines, csv.writer
\* ends every row with '\r\n'
ExportSize(export_data) ==
    IF export_data.kind = "jsonl"
    THEN Len(export_data.lines) * LineChars
            + (IF export_data.lines = << >> THEN 0 ELSE Len(export_data.lines) - 1)
    ELSE Len(export_data.lines) * (LineChars + 2)

\* export_data[:1000] if len(export_data) > 1000 else export_data: the lines
\* that lie entirely within the characters returned
ResponseData(export_data) ==
    IF ExportSize(export_data) > ResponseLimit
    THEN SubSeq(export_data.lines, 1,
                ResponseLimit \div (LineChars + (IF export_data.kind = "jsonl" THEN 1 ELSE 2)))
    ELSE export_data.lines

\* the export endpoint: the 400 check, the call of the service, the response
ExportEndpoint(all_pairs, format, pair_types, min_quality, verified_only) ==
    IF format \notin {"jsonl", "csv"}
    THEN [ status |-> 400, format |-> format, size |-> 0, data |-> << >> ]
    ELSE LET export_data ==
                ExportDataset(all_pairs, format, pair_types, min_quality, verified_only)
         IN  [ status |-> 200, format |-> format, size |-> ExportSize(export_data),
               data |-> ResponseData(export_data) ]

\* number of stored pairs an export reads
MaxExportPairs == 3

\* rows of prompt_response_pairs, with the fields an export reads
ExportPairRows ==
    { [prompt |-> "p1", response |-> "r1", pair_type |-> "summarization",
       quality_score |-> 3, domain |-> "general", difficulty |-> "easy",
       is_verified |-> FALSE],
      [prompt |-> "p2", response |-> "r2", pair_type |-> "qa",
       quality_score |-> 4, domain |-> "contracts", difficulty |-> "medium",
       is_verified |-> TRUE],
      [prompt |-> "p3", response |-> "r3", pair_type |-> "clause_explanation",
       quality_score |-> 2, domain |-> "general", difficulty |-> "hard",
       is_verified |-> TRUE],
      [prompt |-> "p4", response |-> "r4", pair_type |-> "qa",
       quality_score |-> 3, domain |-> "privacy", difficulty |-> "hard",
       is_verified |-> FALSE] }

\* arguments of an export request
ExportFormats == {"jsonl", "csv", "xml"}
ExportTypeLists == { << >>, << << >> >>, << << "qa" >> >>, << << "qa", "summarization" >> >> }
ExportQualities == {0, 3, 4}

\* a store that holds up to MaxExportPairs pairs, in the order of their insertion
InitExport ==
    /\ FtInit
    /\ AdInit
    /\ storeUp = TRUE
    /\ outages = 0
    /\ docs = << >>
    /\ dpJobs = << >>
    /\ pairs \in SeqsUpTo(ExportPairRows, MaxExportPairs)
    /\ deleted = {}
    /\ task = << >>
    /\ pending = {}
    /\ fnArg \in [ fn : {"export"}, format : ExportFormats, pair_types : ExportTypeLists,
                   min_quality : ExportQualities, verified_only : BOOLEAN ]
    /\ fnRes = NoCall

\* the export request, and the service called with the same arguments
ExportCall ==
    /\ fnArg.fn = "export"
    /\ fnRes = NoCall
    /\ fnRes' = [ fn |-> "export",
                  service  |-> ExportDataset(pairs, fnArg.format, fnArg.pair_types,
                                             fnArg.min_quality, fnArg.verified_only),
                  response |-> ExportEndpoint(pairs, fnArg.format, fnArg.pair_types,
                                              fnArg.min_quality, fnArg.verified_only) ]
    /\ UNCHANGED << ftVars, dpVars, adVars, fnArg >>

SpecExport == InitExport /\ [][ExportCall]_vars

\* ============================================================ redaction
\* A text is a sequence of characters.  A regular expression is a tree:
\*   Set(S)          one character of S
\*   Rep(e, lo, hi)  lo to hi repetitions of e (Unbounded for no upper limit)
\*   Cat(<<e...>>)   the parts one after the other
\*   Alt(<<e...>>)   one of the alternatives
\*   Boundary        \b
Digit == {"0", "1", "2", "3", "4", "5", "6", "7", "8", "9"}
LowerSeq ==
    << "a", "b", "c", "d", "e", "f", "g", "h", "i", "j", "k", "l", "m", "n", "o", "p", "q",
    "r", "s", "t", "u", "v", "w", "x", "y", "z" >>
UpperSeq ==
    << "A", "B", "C", "D", "E", "F", "G", "H", "I", "J", "K", "L", "M", "N", "O", "P", "Q",
    "R", "S", "T", "U", "V", "W", "X", "Y", "Z" >>
Lowercase == Range(LowerSeq)
Uppercase == Range(UpperSeq)
Letter == Lowercase \cup Uppercase
\* \w
WordChar == Letter \cup Digit \cup {"_"}
\* \s
Whitespace == {" ", "\n"}

Unbounded == 0 - 1
Set(S) == [t |-> "set", chars |-> S]
Rep(e, lo, hi) == [t |-> "rep", of |-> e, lo |-> lo, hi |-> hi]
Cat(parts) == [t |-> "seq", parts |-> parts]
Alt(opts) == [t |-> "alt", opts |-> opts]
Boundary == [t |-> "b"]

\* the characters a literal matches under re.IGNORECASE
BothCases(c) ==
    IF c \in Letter
    THEN LET k == CHOOSE x \in 1..Len(LowerSeq) : LowerSeq[x] = c \/ UpperSeq[x] = c
         IN  {LowerSeq[k], UpperSeq[k]}
    ELSE {c}

\* a literal word, case-sensitive or not
Literal(w) == Cat([x \in 1..Len(w) |-> Set({w[x]})])
LiteralIgnoreCase(w) == Cat([x \in 1..Len(w) |-> Set(BothCases(w[x]))])

\* whether position i of s holds a word character (FALSE outside the text)
IsWordAt(s, i) == i >= 1 /\ i <= Len(s) /\ s[i] \in WordChar

\* the positions at which a match of e that starts at i can end (the index
\* of the character after the match)
RECURSIVE Ends(_, _, _)
RECURSIVE CatEnds(_, _, _)
RECURSIVE RepEnds(_, _, _, _)
Ends(e, s, i) ==
    CASE e.t = "set" -> IF i <= Len(s) /\ s[i] \in e.chars THEN {i + 1} ELSE {}
      [] e.t = "b"   -> IF IsWordAt(s, i - 1) # IsWordAt(s, i) THEN {i} ELSE {}
      [] e.t = "seq" -> CatEnds(e.parts, s, {i})
      [] e.t = "alt" -> UNION {Ends(e.opts[x], s, i) : x \in 1..Len(e.opts)}
      [] e.t = "rep" -> RepEnds(e, s, {i}, 0)

CatEnds(parts, s, starts) ==
    IF parts = << >> \/ starts = {} THEN starts
    ELSE CatEnds(Tail(parts), s, UNION {Ends(Head(parts), s, k) : k \in starts})

\* starts: the positions reached after n repetitions
RepEnds(e, s, starts, n) ==
    IF starts = {} THEN {}
    ELSE (IF n >= e.lo THEN starts ELSE {})
            \cup (IF e.hi # Unbounded /\ n >= e.hi THEN {}
                  ELSE RepEnds(e, s, UNION {Ends(e.of, s, k) : k \in starts}, n + 1))

\* greatest element of a non-empty set of positions
Last(S) == CHOOSE x \in S : \A y \in S : y <= x

\* re.sub(pattern, replacement, s): the leftmost matches, not overlapping,
\* each replaced.  For the seven patterns of the service the match the
\* backtracking search of re finds first is the longest one at its start.
RECURSIVE SubFrom(_, _, _, _)
SubFrom(e, replacement, s, i) ==
    IF i > Len(s) THEN << >>
    ELSE LET ends == Ends(e, s, i)
         IN  IF ends = {} THEN << s[i] >> \o SubFrom(e, replacement, s, i + 1)
             ELSE replacement \o SubFrom(e, replacement, s, Last(ends))

Sub(e, replacement, s) == SubFrom(e, replacement, s, 1)

\* the replacement strings
SsnToken == << "[", "S", "S", "N", "_", "R", "E", "D", "A", "C", "T", "E", "D", "]" >>
EmailToken == << "[", "E", "M", "A", "I", "L", "_", "R", "E", "D", "A", "C", "T", "E", "D", "]" >>
PhoneToken == << "[", "P", "H", "O", "N", "E", "_", "R", "E", "D", "A", "C", "T", "E", "D", "]" >>
AddressToken == << "[", "A", "D", "D", "R", "E", "S", "S", "_", "R", "E", "D", "A", "C", "T", "E", "D", "]" >>
AmountToken == << "[", "A", "M", "O", "U", "N", "T", "_", "R", "E", "D", "A", "C", "T", "E", "D", "]" >>
NameToken == << "[", "N", "A", "M", "E", "_", "R", "E", "D", "A", "C", "T", "E", "D", "]" >>

\* r'\b\d{3}-\d{2}-\d{4}\b'
SsnPattern ==
    Cat(<< Boundary, Rep(Set(Digit), 3, 3), Set({"-"}), Rep(Set(Digit), 2, 2),
           Set({"-"}), Rep(Set(Digit), 4, 4), Boundary >>)

\* r'\b[A-Za-z0-9._%+-]+@[A-Za-z0-9.-]+\.[A-Z|a-z]{2,}\b'
EmailPattern ==
    Cat(<< Boundary,
           Rep(Set(Letter \cup Digit \cup {".", "_", "%", "+", "-"}), 1, Unbounded),
           Set({"@"}),
           Rep(Set(Letter \cup Digit \cup {".", "-"}), 1, Unbounded),
           Set({"."}),
           Rep(Set(Letter \cup {"|"}), 2, Unbounded),
           Boundary >>)

\* r'\b\d{3}[-.]?\d{3}[-.]?\d{4}\b'
PhonePattern ==
    Cat(<< Boundary, Rep(Set(Digit), 3, 3), Rep(Set({"-", "."}), 0, 1),
           Rep(Set(Digit), 3, 3), Rep(Set({"-", "."}), 0, 1),
           Rep(Set(Digit), 4, 4), Boundary >>)

\* Street|St|Avenue|Ave|Road|Rd|Boulevard|Blvd|Lane|Ln|Drive|Dr|Court|Ct|Place|Pl
StreetWords == 
    << << "S", "t", "r", "e", "e", "t" >>,
       << "S", "t" >>,
       << "A", "v", "e", "n", "u", "e" >>,
       << "A", "v", "e" >>,
       << "R", "o", "a", "d" >>,
       << "R", "d" >>,
       << "B", "o", "u", "l", "e", "v", "a", "r", "d" >>,
       << "B", "l", "v", "d" >>,
       << "L", "a", "n", "e" >>,
       << "L", "n" >>,
       << "D", "r", "i", "v", "e" >>,
       << "D", "r" >>,
       << "C", "o", "u", "r", "t" >>,
       << "C", "t" >>,
       << "P", "l", "a", "c", "e" >>,
       << "P", "l" >> >>

\* r'\b\d{1,5}\s+[A-Za-z\s]+(?:Street|St|...|Place|Pl)\b'
AddressPattern ==
    Cat(<< Boundary, Rep(Set(Digit), 1, 5), Rep(Set(Whitespace), 1, Unbounded),
           Rep(Set(Letter \cup Whitespace), 1, Unbounded),
           Alt([x \in 1..Len(StreetWords) |-> LiteralIgnoreCase(StreetWords[x])]),
           Boundary >>)

\* r'\$[\d,]+(?:\.\d{2})?'
AmountPattern ==
    Cat(<< Set({"$"}), Rep(Set(Digit \cup {","}), 1, Unbounded),
           Rep(Cat(<< Set({"."}), Rep(Set(Digit), 2, 2) >>), 0, 1) >>)

\* r'\b[A-Z][a-z]+ [A-Z][a-z]+\b', matched case-sensitively
FirstLastPattern ==
    Cat(<< Boundary, Set(Uppercase), Rep(Set(Lowercase), 1, Unbounded), Set({" "}),
           Set(Uppercase), Rep(Set(Lowercase), 1, Unbounded), Boundary >>)

\* Mr\.|Mrs\.|Ms\.|Dr\.
Titles == << << "M", "r", "." >>, << "M", "r", "s", "." >>, << "M", "s", "." >>, << "D", "r", "." >> >>

\* r'\b(?:Mr\.|Mrs\.|Ms\.|Dr\.)\s+[A-Z][a-z]+\b', matched case-sensitively
TitleNamePattern ==
    Cat(<< Boundary, Alt([x \in 1..Len(Titles) |-> Literal(Titles[x])]),
           Rep(Set(Whitespace), 1, Unbounded), Set(Uppercase),
           Rep(Set(Lowercase), 1, Unbounded), Boundary >>)

\* self.sensitive_patterns followed by the name_patterns of _anonymize_names
RedactionSteps ==
    << [pattern |-> SsnPattern,       replacement |-> SsnToken],
       [pattern |-> EmailPattern,     replacement |-> EmailToken],
       [pattern |-> PhonePattern,     replacement |-> PhoneToken],
       [pattern |-> AddressPattern,   replacement |-> AddressToken],
       [pattern |-> AmountPattern,    replacement |-> AmountToken],
       [pattern |-> FirstLastPattern, replacement |-> NameToken],
       [pattern |-> TitleNamePattern, replacement |-> NameToken] >>

\* the text after each of the first n substitutions: element k + 1 is the
\* text after k steps
RECURSIVE RedactionStagesWith(_, _, _)
RedactionStagesWith(steps, s, n) ==
    IF n = 0 THEN << s >>
    ELSE LET before == RedactionStagesWith(steps, s, n - 1)
         IN  Append(before, Sub(steps[n].pattern, steps[n].replacement, before[n]))

\* _anonymize_content: the text after every substitution
RedactionStages(content) ==
    RedactionStagesWith(RedactionSteps, content, Len(RedactionSteps))

\* number of pieces in an input text
MaxPieces == 3

\* what the input texts are made of: an SSN, the tail of an e-mail address,
\* a mailbox name, two phone numbers, a dollar sign, a number with cents,
\* a space, a letter, an address, a name and a name with a title
TextPieces ==
    { << "1", "2", "3", "-", "4", "5", "-", "6", "7", "8", "9" >>,
      << "@", "e", "x", ".", "c", "o", "m" >>,
      << "j", "o" >>,
      << "5", "5", "5", "-", "1", "2", "3", "-", "4", "5", "6", "7" >>,
      << "5", "5", "5", "1", "2", "3", "4", "5", "6", "7" >>,
      << "$" >>,
      << "1", ",", "2", "0", "0", ".", "5", "0" >>,
      << " " >>,
      << "x" >>,
      << "1", "2", " ", "M", "a", "i", "n", " ", "S", "t" >>,
      << "J", "o", "h", "n", " ", "S", "m", "i", "t", "h" >>,
      << "M", "r", ".", " ", "S", "m", "i", "t", "h" >> }

RECURSIVE Concat(_)
Concat(parts) == IF parts = << >> THEN << >> ELSE Head(parts) \o Concat(Tail(parts))

InputTexts == { Concat(parts) : parts \in SeqsUpTo(TextPieces, MaxPieces) }

InitRedaction ==
    /\ FtInit
    /\ AdInit
    /\ storeUp = TRUE
    /\ outages = 0
    /\ docs = << >>
    /\ dpJobs = << >>
    /\ pairs = << >>
    /\ deleted = {}
    /\ task = << >>
    /\ pending = {}
    /\ fnArg \in [ fn : {"_anonymize_content"}, content : InputTexts ]
    /\ fnRes = NoCall

\* one call of _anonymize_content
AnonymizeContentCall ==
    /\ fnArg.fn = "_anonymize_content"
    /\ fnRes = NoCall
    /\ fnRes' = [ fn |-> "_anonymize_content", stages |-> RedactionStages(fnArg.content) ]
    /\ UNCHANGED << ftVars, dpVars, adVars, fnArg >>

SpecRedaction == InitRedaction /\ [][AnonymizeContentCall]_vars

\* ================================================================ claims
IsPrefix(a, b) == Len(a) <= Len(b) /\ SubSeq(b, 1, Len(a)) = a

Rank(st) ==
    CASE st = "preparing" -> 0
      [] st = "training" -> 1
      [] st = "evaluating" -> 2
      [] st = "completed" -> 3
      [] st = "failed" -> 3

\* a write that keeps the status, or moves a non-terminal status forward or to failed
Forward(old, new) ==
    \/ old = new
    \/ old \notin Terminal /\ (new = "failed" \/ Rank(new) > Rank(old))

\* the task of job j has returned or died
SimEnded(j) == simPc[j] \in {"finished", "crashed"}

MetricsOf(j) == {k \in 1..Len(ftMetrics) : ftMetrics[k].job_id = j}
ValidationOf(j) == {k \in 1..Len(ftValidation) : ftValidation[k].job_id = j}

\* C1: no write moves a job's status backward in
\* preparing -> training -> evaluating -> completed, or away from completed or
\* failed.
C1_StatusForward ==
    [][\A j \in DOMAIN ftJobs :
          Forward(ftJobs[j].status, ftJobs'[j].status)]_vars

\* C2: once a job's status is completed or failed, its status, progress and
\* logs are never written again.
C2_TerminalFrozen ==
    [][\A j \in DOMAIN ftJobs :
          ftJobs[j].status \in Terminal =>
             /\ ftJobs'[j].status = ftJobs[j].status
             /\ ftJobs'[j].progress = ftJobs[j].progress
             /\ ftJobs'[j].logs = ftJobs[j].logs]_vars

\* C3: a cancel request writes failed only onto a job whose stored status is
\* preparing or training at the moment of the write; a request against an
\* evaluating, completed or failed job is answered 400 and one against an
\* unknown id 404, both leaving the table unchanged.
C3_CancelOnlyWhenCancellable ==
    [][\A c \in 1..MaxCancels :
          /\ (cancel[c].resp # 200 /\ cancel'[c].resp = 200) =>
                ftJobs[cancel[c].job_id].status \in Cancellable
          /\ (cancel[c].resp # 400 /\ cancel'[c].resp = 400) =>
                /\ ftJobs' = ftJobs
                /\ ftJobs[cancel'[c].job_id].status \notin Cancellable
          /\ (cancel[c].resp # 404 /\ cancel'[c].resp = 404) =>
                /\ ftJobs' = ftJobs
                /\ cancel'[c].job_id \notin DOMAIN ftJobs]_vars

\* C4: a cancel request changes nothing of the running task; the task's stage
\* updates keep writing progress and logs whatever the stored status is, and
\* its last update writes completed, 100 and the model id over a failed status.
C4_CancelDoesNotStopTask ==
    [][/\ cancel' # cancel =>
             /\ simPc' = simPc /\ simI' = simI /\ simT' = simT
             /\ simLogs' = simLogs /\ simErr' = simErr
       /\ \A j \in DOMAIN ftJobs :
             /\ (simPc[j] = "stage_update" /\ simPc'[j] = "stage_sleep") =>
                   /\ ftJobs'[j].progress = 10 * simI[j]
                   /\ ftJobs'[j].logs =
                         Append(simLogs[j], training_stages[simI[j] + 1])
             /\ (simPc[j] = "eval_update" /\ simPc'[j] = "eval_sleep") =>
                   ftJobs'[j].status = "evaluating"
             /\ (simPc[j] = "done_update" /\ simPc'[j] = "finished") =>
                   /\ ftJobs'[j].status = "completed"
                   /\ ftJobs'[j].progress = 100
                   /\ ftJobs'[j].model_id = ModelId(j)]_vars

\* an accepted cancel whose failed status the task overwrote with completed
C4_Witness ==
    /\ J1 \in DOMAIN ftJobs
    /\ \E c \in 1..MaxCancels : cancel[c].resp = 200 /\ cancel[c].job_id = J1
    /\ \E k \in 1..Len(ftJobs[J1].logs) : ftJobs[J1].logs[k] = CancelLine
    /\ Len(ftJobs[J1].logs) > Len(training_stages)
    /\ simPc[J1] = "finished"
    /\ ftJobs[J1].status = "completed"
    /\ ftJobs[J1].progress = 100
    /\ ftJobs[J1].model_id # NoModel

\* C5: every write of a job's logs extends the stored logs: the old value is
\* a prefix of the new one.
C5_LogsAppendOnly ==
    [][\A j \in DOMAIN ftJobs :
          IsPrefix(ftJobs[j].logs, ftJobs'[j].logs)]_vars

\* C6: when a step of the sequence raised, the job ends failed with an
\* end_time, also when the store still fails while the except block runs.
C6_FailureEndsFailed ==
    \A j \in DOMAIN ftJobs :
       (SimEnded(j) /\ simErr[j] # "") =>
          /\ ftJobs[j].status = "failed"
          /\ ftJobs[j].end_time = TRUE

\* the first n stage lines
StageLines(n) == SubSeq(training_stages, 1, n)

\* what a run without cancel and store failure has stored for job j, by the
\* position of its task
QuietExpected(j) ==
    LET job == ftJobs[j]
        pc  == simPc[j]
        i   == simI[j]
    IN  /\ pc = "none" =>
              /\ job.status \in {"preparing", "training"}
              /\ job.progress = 0 /\ job.logs = << >> /\ job.model_id = NoModel
        /\ pc \in {"stage_select", "stage_update"} =>
              /\ job.status = "training"
              /\ job.progress = (IF i = 0 THEN 0 ELSE 10 * (i - 1))
              /\ job.logs = StageLines(i) /\ job.model_id = NoModel
        /\ pc = "stage_sleep" =>
              /\ job.status = "training"
              /\ job.progress = 10 * i
              /\ job.logs = StageLines(i + 1) /\ job.model_id = NoModel
        /\ pc = "eval_update" =>
              /\ job.status = "training"
              /\ job.progress = 70
              /\ job.logs = StageLines(8) /\ job.model_id = NoModel
        /\ pc \in {"eval_sleep", "eval_insert", "val_sleep", "val_insert",
                   "done_select", "done_update"} =>
              /\ job.status = "evaluating"
              /\ job.progress = 80
              /\ job.logs = StageLines(8) /\ job.model_id = NoModel
        /\ pc = "finished" =>
              /\ job.status = "completed"
              /\ job.progress = 100
              /\ job.logs = Append(StageLines(8), CompletedLine)
              /\ job.model_id = <<"legal-model-">> \o SubSeq(j, 1, 8)
        /\ pc \in {"none", "stage_select", "stage_update", "stage_sleep",
                   "eval_update", "eval_sleep", "eval_insert", "val_sleep",
                   "val_insert", "done_select", "done_update", "finished"}

\* C7: without cancel and store failure the progress written is 0, 10, ..., 70
\* with one stage line each, then 80 with evaluating after all eight lines,
\* then 100 with completed and the model id 'legal-model-' + job_id[:8]; the
\* stored progress never decreases.
C7_QuietRun ==
    /\ [](\A j \in DOMAIN ftJobs : QuietExpected(j))
    /\ [][\A j \in DOMAIN ftJobs :
             /\ ftJobs'[j].progress >= ftJobs[j].progress
             /\ ftJobs'[j].progress # ftJobs[j].progress =>
                   \/ ftJobs'[j].progress = ftJobs[j].progress + 10
                   \/ ftJobs'[j].progress = 100 /\ ftJobs[j].progress = 80]_vars

\* both jobs ran to the end, interleaved
C7_Witness ==
    /\ DOMAIN ftJobs = JobIds
    /\ \A j \in JobIds :
          /\ simPc[j] = "finished"
          /\ ftJobs[j].status = "completed"
          /\ ftJobs[j].progress = 100
          /\ Len(ftJobs[j].logs) = 9

\* C8 as claimed: every training_metrics row references an existing job that
\* is not preparing, training or evaluating.
C8_MetricsOnlyWhenCompleted ==
    \A k \in 1..Len(ftMetrics) :
       /\ ftMetrics[k].job_id \in DOMAIN ftJobs
       /\ ftJobs[ftMetrics[k].job_id].status \notin
             {"preparing", "training", "evaluating"}

\* C8 amended: every training_metrics row references an existing job whose
\* status is evaluating, completed or failed; no row exists for a job that is
\* preparing or training.
C8_MetricsFromEvaluating ==
    \A k \in 1..Len(ftMetrics) :
       /\ ftMetrics[k].job_id \in DOMAIN ftJobs
       /\ ftJobs[ftMetrics[k].job_id].status \in
             {"evaluating", "completed", "failed"}

\* a metrics row of a job that is still evaluating
C8_Witness ==
    \E k \in 1..Len(ftMetrics) :
       /\ ftMetrics[k].job_id \in DOMAIN ftJobs
       /\ ftJobs[ftMetrics[k].job_id].status = "evaluating"
       /\ simPc[ftMetrics[k].job_id] = "val_sleep"

\* C9 as claimed: a completed job has exactly one metrics row and exactly
\* three validation rows, and a job that ended failed has no metrics row.
C9_OneToOneWithCompleted ==
    \A j \in DOMAIN ftJobs :
       /\ ftJobs[j].status = "completed" =>
             /\ Cardinality(MetricsOf(j)) = 1
             /\ Cardinality(ValidationOf(j)) = 3
       /\ (ftJobs[j].status = "failed" /\ simPc[j] = "finished") =>
             MetricsOf(j) = {}

\* C9 amended: a completed job has exactly one metrics row and exactly three
\* validation rows, one per canned query; rows of training_metrics are never
\* changed or removed once inserted.  (A failed job may have a metrics row.)
C9_CompletedHasMetrics ==
    /\ [](\A j \in DOMAIN ftJobs :
             ftJobs[j].status = "completed" =>
                /\ Cardinality(MetricsOf(j)) = 1
                /\ Cardinality(ValidationOf(j)) = 3
                /\ {ftValidation[k].test_category : k \in ValidationOf(j)} =
                      {"clause_explanation", "simplification", "qa"})
    /\ [][IsPrefix(ftMetrics, ftMetrics')]_vars

\* a job that ended failed after its metrics row was inserted, by a store
\* failure in validation and with no cancel request at all
C9_Witness ==
    /\ J1 \in DOMAIN ftJobs
    /\ \A c \in 1..MaxCancels : cancel[c].pc = "idle"
    /\ simPc[J1] = "finished"
    /\ simErr[J1] = "Insert failed"
    /\ ftJobs[J1].status = "failed"
    /\ Cardinality(MetricsOf(J1)) = 1
    /\ Cardinality(ValidationOf(J1)) = 2

\* the task of data-processing job k has returned or died
TaskEnded(k) == task[k].pc \in {"finished", "crashed"}

\* C10: every error raised inside a data-processing task is caught by the
\* task: once the task has ended, its job is failed with an end_time and the
\* error text in error_log.
C10_TaskErrorsRecorded ==
    \A k \in DOMAIN task :
       (TaskEnded(k) /\ task[k].err # "") =>
          /\ dpJobs[k].status = "failed"
          /\ dpJobs[k].end_time = TRUE
          /\ dpJobs[k].error_log = task[k].err

DpTerminal == {"completed", "failed"}

\* C11: a data-processing job is created in status running; once its status
\* is completed or failed no later write changes the row, and a failed job
\* never carries the result payload of a completion.
C11_DpTerminalFrozen ==
    [][/\ \A k \in DOMAIN dpJobs :
             dpJobs[k].status \in DpTerminal => dpJobs'[k] = dpJobs[k]
       /\ \A k \in DOMAIN dpJobs' \ DOMAIN dpJobs :
             dpJobs'[k].status = "running"
       /\ \A k \in DOMAIN dpJobs' :
             /\ dpJobs'[k].status \in {"running"} \cup DpTerminal
             /\ dpJobs'[k].status = "failed" => dpJobs'[k].results = NoResults
             /\ dpJobs'[k].status = "completed" => dpJobs'[k].error_log = ""]_vars

\* one job ended completed, another ended failed, and both tasks are over
C11_Witness ==
    \E k1, k2 \in DOMAIN dpJobs :
       /\ dpJobs[k1].status = "completed" /\ TaskEnded(k1)
       /\ dpJobs[k2].status = "failed" /\ TaskEnded(k2)

\* job k processes a 50-word text with no sensitive pattern and no keyword
FiftyWordJob(k) ==
    /\ k \in DOMAIN task
    /\ task[k].kind = "document_processing"
    /\ task[k].document_ids[1] \in DOMAIN docs
    /\ docs[task[k].document_ids[1]].content \in FiftyWordTexts

\* the end state of job k and its document, with the document's complexity
ProcessedAs(k, complexity) ==
    /\ dpJobs[k].status = "completed"
    /\ dpJobs[k].progress = Pct(100, 1)
    /\ dpJobs[k].processed_items = 1
    /\ LET d == docs[task[k].document_ids[1]]
       IN  /\ d.is_processed /\ d.is_anonymized
           /\ d.domains = << "general" >>
           /\ d.complexity = complexity

\* C12 as stated: a processing job for a 50-word text without sensitive
\* patterns or keywords ends completed, progress 100, processed_items 1, the
\* document processed, anonymized, tagged [general] and of complexity low
\* whatever the number of periods.
C12_FiftyWordsAlwaysLow ==
    \A k \in 1..MaxDpJobs :
       [](FiftyWordJob(k) => <>[](FiftyWordJob(k) /\ ProcessedAs(k, "low")))

\* the tier of 50 words in stops + 1 period-separated segments
FiftyWordTier(stops) ==
    IF stops = 0 THEN "high" ELSE IF stops < 3 THEN "medium" ELSE "low"

\* C12 amended: the same end state, with complexity low only when the text
\* has at least 3 periods, medium with 1 or 2 periods and high with none.
C12_FiftyWordsByPeriods ==
    \A k \in 1..MaxDpJobs :
       [](FiftyWordJob(k) =>
            <>[](/\ FiftyWordJob(k)
                 /\ ProcessedAs(k, FiftyWordTier(
                       docs[task[k].document_ids[1]].content.stops))))

\* a processed 50-word text without a period, and one with three periods
C12_Witness ==
    \E k1, k2 \in DOMAIN task :
       /\ FiftyWordJob(k1) /\ ProcessedAs(k1, "high")
       /\ docs[task[k1].document_ids[1]].content.stops = 0
       /\ FiftyWordJob(k2) /\ ProcessedAs(k2, "low")
       /\ docs[task[k2].document_ids[1]].content.stops = 3

\* the pair rows job k inserted for document d and pair type ty
PairsOfCombination(k, d, ty) ==
    {id \in DOMAIN pairs : /\ id[1] = k
                           /\ pairs[id].source_document_id = d
                           /\ pairs[id].pair_type = ty}

\* a / b <= c / d for progress fractions
PctLeq(p, q) == p.num * q.den <= q.num * p.den

\* C13: in a pair-generation job progress is written once per (document,
\* pair type) combination, after every example of the combination was
\* inserted, as processed_items / (documents x pair types) x 100 with
\* processed_items one more than before; the written progress never
\* decreases and never exceeds 100.
C13_ProgressPerCombination ==
    [][\A k \in DOMAIN dpJobs :
          dpJobs[k].job_type = "pair_generation" =>
             LET old == dpJobs[k]
                 new == dpJobs'[k]
                 tk  == task[k]
             IN  /\ PctLeq(old.progress, new.progress)
                 /\ PctLeq(new.progress, Pct(100, 1))
                 /\ new.processed_items \in
                       {old.processed_items, old.processed_items + 1}
                 /\ new.processed_items = old.processed_items + 1 =>
                       /\ tk.pc = "gp_progress"
                       /\ new.progress =
                             Pct(new.processed_items * 100,
                                 Len(tk.document_ids) * Len(tk.pair_types))
                       /\ Cardinality(PairsOfCombination(k, tk.document_ids[tk.i],
                                                         tk.pair_types[tk.t]))
                             = Len(PairsForType(tk.document, tk.pair_types[tk.t]))
                 /\ (new.processed_items = old.processed_items
                     /\ new.progress # old.progress) =>
                       new.status = "completed"]_vars

\* C13, the last combination: when no requested document is missing the
\* task leaves its loops with processed_items = total_items and, if there
\* was a combination at all, with progress 100.
C13_LastCombination ==
    \A k \in DOMAIN task :
       (/\ task[k].kind = "pair_generation"
        /\ task[k].pc \in {"gp_complete", "finished"}
        /\ \A x \in 1..Len(task[k].document_ids) :
              task[k].document_ids[x] \notin deleted) =>
          /\ dpJobs[k].processed_items = dpJobs[k].total_items
          /\ dpJobs[k].total_items = Len(task[k].document_ids) * Len(task[k].pair_types)
          /\ PctLeq(Pct(100, 1), dpJobs[k].progress) \/ task[k].pc = "gp_complete"
          /\ dpJobs[k].total_items > 0 =>
                /\ PctLeq(Pct(100, 1), dpJobs[k].progress)
                /\ PctLeq(dpJobs[k].progress, Pct(100, 1))

C13_Progress ==
    /\ C13_ProgressPerCombination
    /\ []C13_LastCombination

\* a job over two documents and two pair types wrote its fourth progress
C13_Witness ==
    \E k \in DOMAIN task :
       /\ task[k].kind = "pair_generation"
       /\ task[k].pc = "gp_complete"
       /\ dpJobs[k].processed_items = 4
       /\ dpJobs[k].progress = Pct(400, 4)
       /\ Len(task[k].generated) >= 5

\* the number of pairs the claim states for a pair type and a document with
\* the given number of candidate paragraphs
StatedPairCount(pair_type, candidates) ==
    CASE pair_type = "summarization" -> 2
      [] pair_type = "qa" -> 3
      [] pair_type = "clause_explanation" ->
            IF candidates < 3 THEN candidates ELSE 3
      [] OTHER -> 0

\* the pair rows job k inserted
PairsOfJob(k) == {id \in DOMAIN pairs : id[1] = k}

\* C14: for one document and one pair type a completed job persisted 2
\* pairs (summarization), 3 (qa), min(3, candidate paragraphs)
\* (clause_explanation) or none (any other type); each pair has a quality
\* score in 1..5 and a requested pair type; results.generated_pairs is the
\* number of rows the job inserted and the length of output_pairs.
C14_PairCounts ==
    /\ \A id \in DOMAIN pairs :
          /\ pairs[id].quality_score \in 1..5
          /\ \E t \in 1..Len(task[id[1]].pair_types) :
                pairs[id].pair_type = task[id[1]].pair_types[t]
    /\ \A k \in DOMAIN task :
          (task[k].kind = "pair_generation" /\ dpJobs[k].status = "completed") =>
             /\ \A x \in 1..Len(task[k].document_ids), t \in 1..Len(task[k].pair_types) :
                   LET d == task[k].document_ids[x]
                       ty == task[k].pair_types[t]
                   IN  d \in DOMAIN docs =>
                          Cardinality(PairsOfCombination(k, d, ty))
                             = StatedPairCount(ty, docs[d].content.clauses)
             /\ dpJobs[k].results.generated_pairs = Cardinality(PairsOfJob(k))
             /\ dpJobs[k].results.generated_pairs = Len(dpJobs[k].output_pairs)

\* a completed job over a document with four candidate paragraphs: two
\* summarization pairs and three clause explanations; another completed job
\* with three qa pairs and no risk_analysis pair
C14_Witness ==
    \E k1, k2 \in DOMAIN task, d \in DOMAIN docs :
       /\ dpJobs[k1].status = "completed" /\ dpJobs[k2].status = "completed"
       /\ docs[d].content.clauses = 4
       /\ Cardinality(PairsOfCombination(k1, d, "summarization")) = 2
       /\ Cardinality(PairsOfCombination(k1, d, "clause_explanation")) = 3
       /\ Cardinality(PairsOfCombination(k2, d, "qa")) = 3
       /\ \E t \in 1..Len(task[k2].pair_types) : task[k2].pair_types[t] = "risk_analysis"
       /\ PairsOfCombination(k2, d, "risk_analysis") = {}

\* C15: a paragraph is a clause candidate exactly when it has between 10 and
\* 99 words inclusive, and clause_explanation uses the first 3 candidates in
\* document order.
C15_CandidatesTenToNinetyNine ==
    fnRes.fn = "clauses" =>
       fnRes.explained =
          Take(SelectSeq(Upto(Len(fnArg.paras)),
                         LAMBDA x : fnArg.paras[x] >= 10 /\ fnArg.paras[x] <= 99), 3)

\* C16: every pair row is inserted with a source_document_id whose document
\* is in the store at that moment, and no pair is created for a requested id
\* the store does not contain: the request naming such an id starts no job.
C16_SourceDocumentExists ==
    [][/\ \A id \in DOMAIN pairs' \ DOMAIN pairs :
             /\ pairs'[id].source_document_id \in DOMAIN docs
             /\ pairs'[id].source_document_id \in DOMAIN docs'
       /\ \A k \in DOMAIN task' :
             \A x \in 1..Len(task'[k].document_ids) :
                task'[k].document_ids[x] \in DOMAIN docs']_vars

\* pairs were inserted for both stored documents
C16_Witness ==
    /\ \E id \in DOMAIN pairs : pairs[id].source_document_id = 1
    /\ \E id \in DOMAIN pairs : pairs[id].source_document_id = 2

\* the tier the claim states for w words in s segments (w/s > c as w > c * s)
StatedTier(w, s) ==
    IF w > 25 * s \/ w > 5000 THEN "high"
    ELSE IF w > 15 * s \/ w > 2000 THEN "medium"
    ELSE "low"

\* C17: the complexity of a text is a function of its word count w and its
\* number s of period-separated segments: high iff w/s > 25 or w > 5000,
\* otherwise medium iff w/s > 15 or w > 2000, otherwise low; (6000, 10) is
\* high, (1000, 50) medium, (100, 20) low, and w/s = 25, w = 5000, w/s = 15,
\* w = 2000 fall in the lower tier.
C17_ComplexityTiers ==
    fnRes.fn = "complexity" =>
       LET w == fnArg.w
           s == fnArg.s
       IN  /\ fnRes.tier = StatedTier(w, s)
           /\ (w = 6000 /\ s = 10) => fnRes.tier = "high"
           /\ (w = 1000 /\ s = 50) => fnRes.tier = "medium"
           /\ (w = 100 /\ s = 20) => fnRes.tier = "low"
           /\ (w = 25 * s /\ w <= 5000) => fnRes.tier = "medium"
           /\ (w = 5000 /\ w <= 25 * s) => fnRes.tier = "medium"
           /\ (w = 15 * s /\ w <= 2000) => fnRes.tier = "low"
           /\ (w = 2000 /\ w <= 15 * s) => fnRes.tier = "low"

\* 250 words in 10 segments (average exactly 25) were classified medium
C17_Witness ==
    /\ fnRes.fn = "complexity"
    /\ fnArg.w = 250 /\ fnArg.s = 10
    /\ fnRes.tier = "medium"

\* C18: the tag list is never empty; it contains a category exactly when one
\* of the category's keywords occurs in the lower-cased text, and general
\* exactly when no category matches, the list then being [general]; a second
\* run on the same text gives the same tags.
C18_DomainTags ==
    fnRes.fn = "domains" =>
       LET tags == Range(fnRes.tags)
           occurring == UNION {KeywordsIn(Lower(f)) : f \in fnArg.frags}
           categories == Range(domain_keywords)
       IN  /\ fnRes.tags # << >>
           /\ \A d \in categories : d \in tags <=> KeywordsOf(d) \cap occurring # {}
           /\ "general" \in tags <=> \A d \in categories : KeywordsOf(d) \cap occurring = {}
           /\ "general" \in tags => fnRes.tags = << "general" >>
           /\ tags \subseteq categories \cup {"general"}
           /\ fnRes.again # << >> => Range(fnRes.again) = tags

\* a text tagged with several categories, once and again
C18_Witness ==
    /\ fnRes.fn = "domains"
    /\ fnArg.frags = {"Company Property", "TERMS", "weather"}
    /\ fnRes.tags = << "contracts", "real_estate", "corporate" >>
    /\ fnRes.again = fnRes.tags

\* every number the aggregates returned
AggregateNumbers(r) ==
    { r.dataset.average_prompt_length, r.dataset.average_response_length,
      r.dataset.average_quality_score, r.dataset.verification_rate,
      r.stats.average_completion_time, r.stats.success_rate,
      r.overview.success_rate, r.overview.average_model_score,
      r.quality, r.health.average_processing_time, r.health.error_rate }
    \cup {r.trend[day] : day \in TrendDays}

\* C19: no aggregate divides by zero; with no pair, calculate_dataset_metrics
\* gives verification_rate, average_quality_score and both average lengths
\* 0, and the statistics, overview, trend, data-quality and system-health
\* scans give 0 (no average for the completion time) when the collection
\* they divide by is empty.
C19_NoDivisionByZero ==
    fnRes.fn = "aggregate" =>
       /\ ZeroDivisionError \notin AggregateNumbers(fnRes)
       /\ fnArg.pairs = << >> =>
             /\ fnRes.dataset.verification_rate = Zero
             /\ fnRes.dataset.average_quality_score = Zero
             /\ fnRes.dataset.average_prompt_length = Zero
             /\ fnRes.dataset.average_response_length = Zero
             /\ fnRes.quality = Zero
       /\ fnArg.jobs = << >> =>
             /\ fnRes.stats.success_rate = Zero
             /\ fnRes.overview.success_rate = Zero
       /\ (\A x \in 1..Len(fnArg.jobs) :
              ~(fnArg.jobs[x].status = "completed" /\ fnArg.jobs[x].end_time)) =>
             /\ fnRes.stats.average_completion_time = None
             /\ fnRes.health.average_processing_time = Zero
             /\ \A day \in TrendDays : fnRes.trend[day] = Zero
       /\ fnArg.metrics = << >> =>
             /\ fnRes.overview.average_model_score = Zero
             /\ \A day \in TrendDays : fnRes.trend[day] = Zero
       /\ (\A x \in 1..Len(fnArg.jobs) : ~fnArg.jobs[x].created_recent) =>
             fnRes.health.error_rate = Zero

\* the aggregates of empty tables, and of a failed job updated in the last
\* 24 hours while no job was created in them
C19_Witness ==
    /\ fnRes.fn = "aggregate"
    /\ fnArg.jobs = << [id |-> 3, status |-> "failed", end_time |-> TRUE, seconds |-> 10,
                        end_day |-> 1, created_recent |-> FALSE, updated_recent |-> TRUE] >>
    /\ fnArg.pairs = << >>
    /\ fnRes.health.error_rate = Zero
    /\ fnRes.dataset.verification_rate = Zero
\* sum of the values of a dict
RECURSIVE SumOfValues(_)
SumOfValues(dist) ==
    IF DOMAIN dist = {} THEN 0
    ELSE LET key == CHOOSE k \in DOMAIN dist : TRUE
         IN  dist[key] + SumOfValues([k \in DOMAIN dist \ {key} |-> dist[k]])

\* the quality scores of the pairs read, in order
ScoresRead == [x \in 1..Len(fnArg.pairs) |-> fnArg.pairs[x].quality_score]

\* the pair types, scores and domains that occur in the rows read
TypesRead == {fnArg.pairs[x].pair_type : x \in 1..Len(fnArg.pairs)}
DomainsRead == UNION {Range(fnArg.documents[x].domains) : x \in 1..Len(fnArg.documents)}

\* C20: calculate_dataset_metrics gives total_pairs = number of pairs,
\* verified_pairs = number of verified pairs (at most total_pairs),
\* type_distribution[t] = number of pairs of type t, quality_distribution[str(q)]
\* = number of pairs with score q, the values of both maps summing to
\* total_pairs, domain_distribution[d] = number of documents tagged d (a
\* document counts once for each of its domains, not at all without one),
\* average_quality_score x total_pairs = sum of the scores, verification_rate
\* within 0..100; scores [1,3,3,5] give average 3 and distribution
\* {"1": 1, "3": 2, "5": 1}
C20_DatasetMetrics ==
    fnRes.fn = "aggregate" =>
       LET m == fnRes.dataset
           P == fnArg.pairs
           D == fnArg.documents
       IN  /\ m.total_pairs = Len(P)
           /\ m.verified_pairs = Cardinality({x \in 1..Len(P) : P[x].is_verified})
           /\ m.verified_pairs <= m.total_pairs
           /\ DOMAIN m.type_distribution = TypesRead
           /\ \A t \in TypesRead :
                 m.type_distribution[t] =
                    Cardinality({x \in 1..Len(P) : P[x].pair_type = t})
           /\ DOMAIN m.quality_distribution = {Str(q) : q \in Range(ScoresRead)}
           /\ \A q \in Range(ScoresRead) :
                 m.quality_distribution[Str(q)] =
                    Cardinality({x \in 1..Len(P) : P[x].quality_score = q})
           /\ SumOfValues(m.type_distribution) = m.total_pairs
           /\ SumOfValues(m.quality_distribution) = m.total_pairs
           /\ DOMAIN m.domain_distribution = DomainsRead
           /\ \A d \in DomainsRead :
                 m.domain_distribution[d] =
                    Cardinality({x \in 1..Len(D) : d \in Range(D[x].domains)})
           /\ SumOfValues(m.domain_distribution) =
                 SeqSum([x \in 1..Len(D) |-> Len(D[x].domains)])
           /\ m.average_quality_score.kind = "number"
           /\ m.average_quality_score.num * m.total_pairs =
                 SeqSum(ScoresRead) * m.average_quality_score.den
           /\ m.verification_rate.kind = "number"
           /\ m.verification_rate.den > 0
           /\ 0 <= m.verification_rate.num
           /\ m.verification_rate.num <= 100 * m.verification_rate.den
           /\ ScoresRead = << 1, 3, 3, 5 >> =>
                 /\ m.average_quality_score.num = 3 * m.average_quality_score.den
                 /\ m.quality_distribution = ("1" :> 1) @@ ("3" :> 2) @@ ("5" :> 1)

\* the metrics of four pairs scored 1, 3, 3, 5 and of a document with two
\* domains next to one with none have been computed
C20_Witness ==
    /\ fnRes.fn = "aggregate"
    /\ ScoresRead = << 1, 3, 3, 5 >>
    /\ \E x, y \in 1..Len(fnArg.documents) :
          /\ Len(fnArg.documents[x].domains) = 2
          /\ fnArg.documents[y].domains = << >>
    /\ fnRes.dataset.verified_pairs \in 1..3

\* a metrics request completed its calculation in this step
Calculated(r) == mreq[r].pc = "insert" /\ mreq'[r].pc = "returned"

\* a get request made its read of dataset_metrics in this step
ReadCurrent(r) == mreq[r].pc = "idle" /\ mreq'[r].kind = "get" /\ mreq'[r].pc # "raised"

\* C21: a call of calculate_dataset_metrics that returns has inserted exactly
\* one new dataset_metrics snapshot; earlier snapshots, documents and pairs
\* are left as they were; get_dataset_metrics returns the stored snapshot
\* with the greatest creation time, not a recomputation, and goes on to
\* calculate and store one only when its read found no snapshot
C21_Snapshots ==
       [][ /\ dataset_metrics' # dataset_metrics =>
                /\ \E r \in 1..MaxMetricsCalls : Calculated(r)
                /\ Len(dataset_metrics') = Len(dataset_metrics) + 1
                /\ SubSeq(dataset_metrics', 1, Len(dataset_metrics)) = dataset_metrics
           /\ \A r \in 1..MaxMetricsCalls :
                Calculated(r) =>
                   /\ Len(dataset_metrics') = Len(dataset_metrics) + 1
                   /\ mreq'[r].resp = << dataset_metrics'[Len(dataset_metrics')] >>
           /\ mreq' # mreq => docs' = docs /\ pairs' = pairs
           /\ \A r \in 1..MaxMetricsCalls :
                ReadCurrent(r) =>
                   IF dataset_metrics # << >>
                   THEN /\ mreq'[r].pc = "returned"
                        /\ dataset_metrics' = dataset_metrics
                        /\ \E x \in 1..Len(dataset_metrics) :
                              /\ mreq'[r].resp = << dataset_metrics[x] >>
                              /\ \A y \in 1..Len(dataset_metrics) :
                                    dataset_metrics[y].last_updated
                                       <= dataset_metrics[x].last_updated
                   ELSE mreq'[r].pc = "select_documents"
         ]_vars

\* a get request returned the later of two stored snapshots, which counts
\* fewer pairs than the store holds, and inserted nothing
C21_Witness ==
    \E r \in 1..MaxMetricsCalls :
       /\ mreq[r].kind = "get"
       /\ mreq[r].pc = "returned"
       /\ mreq[r].found = 2
       /\ Len(dataset_metrics) = 2
       /\ mreq[r].resp = << dataset_metrics[2] >>
       /\ dataset_metrics[1].last_updated < dataset_metrics[2].last_updated
       /\ mreq[r].resp[1].total_pairs < Cardinality(DOMAIN pairs)

\* the stored pairs that satisfy the three filters together, in stored order
Exported ==
    SelectSeq(pairs, LAMBDA p :
       /\ \/ fnArg.pair_types = << >>
          \/ fnArg.pair_types[1] = << >>
          \/ \E x \in 1..Len(fnArg.pair_types[1]) : fnArg.pair_types[1][x] = p.pair_type
       /\ p.quality_score >= fnArg.min_quality
       /\ fnArg.verified_only => p.is_verified)

\* the record of one pair: its six fields in the stated order
ExportedRecord(p) ==
    << << "prompt", p.prompt >>, << "response", p.response >>, << "type", p.pair_type >>,
       << "quality", p.quality_score >>, << "domain", p.domain >>,
       << "difficulty", p.difficulty >> >>

Occurs(w, s) == \E k \in 0..(Len(s) - Len(w)) : SubSeq(s, k + 1, k + Len(w)) = w

\* number of occurrences of w in s
Occurrences(w, s) ==
    Cardinality({k \in 0..(Len(s) - Len(w)) : SubSeq(s, k + 1, k + Len(w)) = w})

\* the substrings of s that the pattern matches
WellFormed(e, s) ==
    { SubSeq(s, i, Last(Ends(e, s, i)) - 1) : i \in {x \in 1..Len(s) : Ends(e, s, x) # {}} }

\* the SSN, e-mail, phone and amount steps
TokenSteps == {1, 2, 3, 5}

\* every well-formed SSN, e-mail address, phone number and dollar amount of
\* the input is absent from the output, and the output holds its token
C23_Removed ==
    fnRes.fn = "_anonymize_content" =>
        \A k \in TokenSteps : \A w \in WellFormed(RedactionSteps[k].pattern, fnArg.content) :
            /\ ~Occurs(w, fnRes.stages[Len(fnRes.stages)])
            /\ Occurs(RedactionSteps[k].replacement, fnRes.stages[Len(fnRes.stages)])

\* a token written by a step is still there after every later step
C23_TokensKept ==
    fnRes.fn = "_anonymize_content" =>
        \A k \in 1..Len(RedactionSteps) : \A j \in k..Len(RedactionSteps) :
            Occurrences(RedactionSteps[k].replacement, fnRes.stages[j + 1])
                >= Occurrences(RedactionSteps[k].replacement, fnRes.stages[k + 1])

\* C23: for every text with a well-formed SSN, e-mail address, phone number
\* or dollar amount, the output of _anonymize_content does not contain the
\* original substring and contains the corresponding token; the patterns are
\* applied in the order SSN, e-mail, phone, address, amount, names, and a
\* token written by an earlier pattern is not altered by a later one.
C23_Redaction == C23_Removed /\ C23_TokensKept

\* ---------------------------------------------------------------- C24
\* task k writes the content of a document in this step
WritesContent(k) ==
    /\ k \in DOMAIN task
    /\ \/ task[k].pc = "pd_document" /\ task'[k].pc = "pd_complete"
       \/ task[k].pc = "an_update" /\ task'[k].pc = "an_progress"

\* the anonymization task k reads a document that is already anonymized
ReadsAnonymized(k) ==
    /\ k \in DOMAIN task
    /\ task[k].pc = "an_select"
    /\ task'[k].pc # "an_select"
    /\ storeUp
    /\ task[k].document_ids[task[k].i] \in DOMAIN docs
    /\ docs[task[k].document_ids[task[k].i]].is_anonymized

\* C24: content is redacted at most once: the anonymization job skips a
\* document that is already is_anonymized, no task of any interleaving of
\* anonymization and document-processing jobs writes content it obtained by
\* redacting content that was already redacted, and is_anonymized never
\* goes from true to false.
C24_RedactedOnce ==
    [][ /\ \A k \in DOMAIN task : ReadsAnonymized(k) => task'[k].pc = "an_progress"
        /\ \A k \in DOMAIN task : WritesContent(k) => ~task[k].document.is_anonymized
        /\ \A d \in DOMAIN docs \cap DOMAIN docs' :
               docs[d].is_anonymized => docs'[d].is_anonymized ]_vars

\* the parts of C24 that the anonymization job alone is responsible for
C24_SkipAndFlag ==
    [][ /\ \A k \in DOMAIN task : ReadsAnonymized(k) => task'[k].pc = "an_progress"
        /\ \A k \in DOMAIN task :
               (WritesContent(k) /\ task[k].pc = "an_update")
                   => ~task[k].document.is_anonymized
        /\ \A d \in DOMAIN docs \cap DOMAIN docs' :
               docs[d].is_anonymized => docs'[d].is_anonymized ]_vars

\* ---------------------------------------------------------------- C25
\* the row of model_deployments references a completed job whose metrics
\* have an overall score of at least 0.7
ReferencesDeployable(row) ==
    /\ row.job_id \in DOMAIN ftJobs
    /\ ftJobs[row.job_id].status = "completed"
    /\ SelectMetrics(row.job_id) # << >>
    /\ SelectMetrics(row.job_id)[1].overall_score >= QualityThreshold

\* a deploy request for a job that is not completed or has no metrics is
\* rejected and creates no row
C25_Rejected ==
    [][ \A r \in 1..MaxDeploys :
          /\ (/\ deploy[r].pc = "idle"
              /\ deploy'[r].pc # "idle"
              /\ storeUp
              /\ deploy'[r].job_id \in DOMAIN ftJobs
              /\ ftJobs[deploy'[r].job_id].status # "completed")
                => (deploy'[r].pc = "done" /\ deploy'[r].resp = 400)
          /\ (/\ deploy[r].pc = "select_metrics"
              /\ deploy'[r].pc # "select_metrics"
              /\ storeUp
              /\ SelectMetrics(deploy[r].job_id) = << >>)
                => (deploy'[r].pc = "done" /\ deploy'[r].resp = 400)
          /\ deployments' # deployments
                => (deploy[r].pc \in {"insert", "update"} /\ deploy'[r].resp # 400)
      ]_vars

\* C25: each model_deployments row references a completed job whose metrics
\* have an overall score of at least 0.7, in every state, also when a cancel
\* request that read the status before completion writes failed after the
\* deployment was created; a deploy request for a job that is not completed
\* or has no metrics is rejected and creates no row.
C25_DeploymentsReferenceCompleted ==
    \A x \in 1..Len(deployments) : ReferencesDeployable(deployments[x])

\* ---------------------------------------------------------------- C26
\* the successive values of the progress of a document-processing job
ProcessingProgress == << Pct(0, 1), Pct(25, 1), Pct(50, 1), Pct(75, 1), Pct(100, 1) >>

\* the select of task k found no document
NotFound(k) ==
    /\ task[k].kind = "document_processing"
    /\ task[k].err = "Document not found"

\* task k makes its select while its document is not in the store
SelectsMissing(k) ==
    /\ k \in DOMAIN task
    /\ task[k].pc = "pd_select"
    /\ task'[k].pc # "pd_select"
    /\ storeUp
    /\ task[k].document_ids[1] \notin DOMAIN docs

\* C26: the progress of a document-processing job is written as 25, 50, 75
\* and 100 in that order, and the document is updated before the job is
\* marked completed: a completed job's document is processed and anonymized;
\* when the document is not found the job ends failed with progress 0 and
\* the task writes no document.
C26_ProcessingOrder ==
    /\ [](\A k \in DOMAIN dpJobs :
            dpJobs[k].job_type = "document_processing" =>
               /\ dpJobs[k].status = "completed" =>
                     /\ dpJobs[k].progress = Pct(100, 1)
                     /\ task[k].pc = "finished"
                     /\ task[k].document_ids[1] \in DOMAIN docs =>
                           /\ docs[task[k].document_ids[1]].is_processed
                           /\ docs[task[k].document_ids[1]].is_anonymized
               /\ NotFound(k) =>
                     /\ dpJobs[k].progress = Pct(0, 1)
                     /\ task[k].pc \in {"except", "finished", "crashed"}
                     /\ task[k].pc = "finished" => dpJobs[k].status = "failed")
    /\ [][\A k \in DOMAIN dpJobs :
            dpJobs[k].job_type = "document_processing" =>
               /\ dpJobs'[k].progress # dpJobs[k].progress =>
                     \E x \in 1..4 : /\ dpJobs[k].progress = ProcessingProgress[x]
                                     /\ dpJobs'[k].progress = ProcessingProgress[x + 1]
               /\ (dpJobs'[k].status = "completed" /\ dpJobs[k].status # "completed") =>
                     task[k].pc = "pd_complete"
               /\ SelectsMissing(k) => NotFound(k)'
               /\ NotFound(k) => docs' = docs \/ ~WritesContent(k)]_vars

\* one job completed with its document processed, another failed at
\* progress 0 because its document was not found
C26_Witness ==
    \E k1, k2 \in DOMAIN dpJobs :
       /\ dpJobs[k1].job_type = "document_processing"
       /\ dpJobs[k1].status = "completed"
       /\ task[k1].document_ids[1] \in DOMAIN docs
       /\ docs[task[k1].document_ids[1]].is_processed
       /\ NotFound(k2)
       /\ dpJobs[k2].status = "failed"
       /\ dpJobs[k2].progress = Pct(0, 1)

\* ---------------------------------------------------------------- C27
\* the pair-generation task k selects a document the store does not hold
SkipsMissing(k) ==
    /\ k \in DOMAIN task
    /\ task[k].pc = "gp_select"
    /\ task'[k].pc # "gp_select" \/ task'[k].i # task[k].i
    /\ storeUp
    /\ task[k].document_ids[task[k].i] \notin DOMAIN docs

\* processed_items stays within total_items, a missing document is skipped
\* without a pair and without failing the job, and a completed job has
\* progress 100
C27_SkipWithoutFailing ==
    /\ [](\A k \in DOMAIN dpJobs :
            dpJobs[k].job_type = "pair_generation" =>
               /\ dpJobs[k].processed_items <= dpJobs[k].total_items
               /\ dpJobs[k].total_items
                     = Len(task[k].document_ids) * Len(task[k].pair_types)
               /\ dpJobs[k].status = "completed" => dpJobs[k].progress = Pct(100, 1))
    /\ [][\A k \in DOMAIN task :
            SkipsMissing(k) => /\ pairs' = pairs
                               /\ dpJobs' = dpJobs
                               /\ task'[k].pc \in {"gp_select", "gp_complete"}]_vars

\* C27: in a pair-generation job processed_items never exceeds total_items;
\* a requested document the store does not contain is skipped without
\* creating pairs and without failing the job, the job still ends completed
\* with progress 100, and every completed pair-generation job has
\* processed_items equal to total_items.
C27_ProcessedEqualsTotal ==
    /\ C27_SkipWithoutFailing
    /\ [](\A k \in DOMAIN dpJobs :
            (dpJobs[k].job_type = "pair_generation" /\ dpJobs[k].status = "completed")
               => dpJobs[k].processed_items = dpJobs[k].total_items)

\* ---------------------------------------------------------------- C28
\* every id of the request is the id of a stored document
AllExist(document_ids) ==
    \A x \in 1..Len(document_ids) : document_ids[x] \in DOMAIN docs

\* no id occurs twice in the request
Distinct(document_ids) ==
    \A x, y \in 1..Len(document_ids) : document_ids[x] = document_ids[y] => x = y

\* a rejected request creates no job and no pair
C28_RejectedLeavesNothing ==
    [][ (fnRes' # fnRes /\ fnRes'.fn = "generate" /\ fnRes'.status = 404)
            => (pending' = pending /\ dpJobs' = dpJobs /\ pairs' = pairs
                /\ task' = task) ]_vars

\* what the length comparison accepts: the ids all exist and are distinct
C28_AcceptedWhenDistinct ==
    [][ (fnArg' # fnArg \/ fnRes' # fnRes) =>
            (fnRes'.status = 200 <=>
                (AllExist(fnArg'.document_ids) /\ Distinct(fnArg'.document_ids))) ]_vars

\* C28: the generate-pairs request is accepted exactly when every requested
\* id exists in the store, also when the list names a document more than
\* once; it is rejected as not found, creating no job and no pair, exactly
\* when at least one requested id is absent.
C28_AcceptedIffAllExist ==
    [][ (fnArg' # fnArg \/ fnRes' # fnRes) =>
            /\ fnRes'.status = 200 <=> AllExist(fnArg'.document_ids)
            /\ fnRes'.status = 404 <=> ~AllExist(fnArg'.document_ids)
            /\ fnRes'.status = 404 =>
                  (pending' = pending /\ dpJobs' = dpJobs /\ pairs' = pairs) ]_vars

\* ---------------------------------------------------------------- C29
\* model_id is written only together with status completed and progress
\* 100, and a completed job has progress 100 and an end_time
C29_WrittenOnCompletion ==
    /\ [](\A j \in DOMAIN ftJobs :
            ftJobs[j].status = "completed" =>
               /\ ftJobs[j].model_id # NoModel
               /\ ftJobs[j].progress = 100
               /\ ftJobs[j].end_time)
    /\ [][\A j \in DOMAIN ftJobs :
            ftJobs'[j].model_id # ftJobs[j].model_id =>
               /\ ftJobs'[j].status = "completed"
               /\ ftJobs'[j].progress = 100
               /\ ftJobs'[j].model_id = ModelId(j)]_vars

\* C29: a fine-tuning job has a model identifier exactly when its status is
\* completed: under any interleaving with cancel, a job with status failed,
\* preparing, training or evaluating has no model_id, and a completed job
\* has progress 100 and an end_time.
C29_ModelIdIffCompleted ==
    \A j \in DOMAIN ftJobs :
       /\ ftJobs[j].model_id # NoModel <=> ftJobs[j].status = "completed"
       /\ ftJobs[j].status = "completed" =>
             (ftJobs[j].progress = 100 /\ ftJobs[j].end_time)

\* ---------------------------------------------------------------- C30
\* the data-processing task k has returned and its job is completed
DpDone(k) ==
    /\ k \in DOMAIN task
    /\ task[k].pc = "finished"
    /\ dpJobs[k].status = "completed"

\* the simulator of job j has returned and the job is completed
FtDone(j) ==
    /\ simPc[j] = "finished"
    /\ ftJobs[j].status = "completed"

\* C30: with a store that does not fail and fair scheduling every launched
\* background task terminates and its job reaches status completed:
\* document processing of an existing document, pair generation and
\* anonymization over any list of ids, the empty list and the empty list of
\* pair types included, without a division by zero, and the fine-tuning
\* simulator when no cancel is issued.
C30_TasksComplete ==
    /\ \A k \in 1..MaxDpJobs : [](k \in DOMAIN task => <>[]DpDone(k))
    /\ \A j \in RaceJobs : [](simPc[j] # "none" => <>[]FtDone(j))
    /\ [](\A k \in DOMAIN dpJobs : dpJobs[k].progress.den # 0)

\* a pair-generation job over no pair type and an anonymization job over
\* the empty list are completed, and so is the fine-tuning job
C30_Witness ==
    /\ \E k \in DOMAIN task :
          /\ task[k].kind = "pair_generation"
          /\ task[k].pair_types = << >>
          /\ task[k].document_ids # << >>
          /\ DpDone(k)
    /\ \E k \in DOMAIN task :
          /\ task[k].kind = "anonymization"
          /\ task[k].document_ids = << >>
          /\ DpDone(k)
    /\ \E j \in RaceJobs : FtDone(j)
====
